---------------------------- MODULE Spec2Model ----------------------------
(***************************************************************************)
(* State-machine model of the USB device class drivers of STM32_XPD:       *)
(*   CDC   (Middlewares/.../Class/CDC/Src/usbd_cdc.c)                       *)
(*   DFU   (Middlewares/.../Class/DFU/Src/usbd_dfu.c)                       *)
(*   RNDIS (Middlewares/.../Class/RNDIS/Src/usbd_rndis.c, Inc/rndis.h)      *)
(*                                                                         *)
(* One device handle (pdev) carries one class at a time, so each class has *)
(* its own specification (SpecCDC, SpecDFU, SpecRNDIS) over its own class  *)
(* handle.  The device core and the endpoint primitive layer (USBD_LL)     *)
(* are the environment: they are modelled by what their call contract      *)
(* says (a transfer is outstanding from an accepted USBD_LL_Transmit until *)
(* its DataIn, closing or flushing an endpoint cancels its transfers).     *)
(*                                                                         *)
(* Every step records the handler that ran (lastOp), its return value      *)
(* (ret) and the external calls it made (calls), so that properties can    *)
(* speak about what a handler did.                                         *)
(***************************************************************************)
EXTENDS Integers, Sequences, FiniteSets, TLC

VARIABLES
    hcdc,       \* CDC class handle (pdev->pClassData as USBD_CDC_HandleTypeDef), or NULL
    cdcInXfer,  \* bulk IN transfers handed to the low-level driver on CDC_IN_EP, not yet completed
    cdcOutArm,  \* bulk OUT receptions armed on CDC_OUT_EP, not yet completed
    cdcEp0,     \* control data stage the CDC driver armed: "idle" or "rx"
    cdcItf,     \* the registered USBD_CDC_ItfTypeDef: which callbacks are not NULL
    hdfu,       \* DFU class handle (USBD_DFU_HandleTypeDef), or NULL
    dfuEp0,     \* control data stage armed by the DFU driver: "idle", "rx" or "tx"
    dfuHalt,    \* TRUE once the DFU driver has torn the device down (reset) or faulted
    rt,         \* progress of the DNLOAD / data / GETSTATUS / completion / GETSTATUS round trip
    hrndis,     \* RNDIS class handle (USBD_RNDIS_HandleTypeDef), or NULL
    itfOids,    \* the registered RNDIS object table (itf->ObjectInfo[0..ObjectInfoCount-1].Oid)
    rndisInXfer,\* lengths of the bulk IN transfers outstanding on RNDIS_IN_EP
    rndisOutArm,\* bulk OUT receptions armed on RNDIS_OUT_EP
    rndisEp0,   \* control transfer stage (pdev->ep0_state): "idle", "rx" or "tx"
    rndisNotif, \* TRUE while a notification is outstanding on RNDIS_CMD_EP
    lastOp,     \* name of the handler that ran in the last step
    arg,        \* its input
    ret,        \* its return value
    calls,      \* the external calls it made, in order
    tick        \* flips on every step (no handler step is a stuttering step)

cdcVars   == <<hcdc, cdcInXfer, cdcOutArm, cdcEp0, cdcItf>>
dfuVars   == <<hdfu, dfuEp0, dfuHalt, rt>>
rndisVars == <<hrndis, itfOids, rndisInXfer, rndisOutArm, rndisEp0, rndisNotif>>
obsVars   == <<lastOp, arg, ret, calls, tick>>
vars      == <<cdcVars, dfuVars, rndisVars, obsVars>>

\* one class driver is bound to the device at a time: a handler of one class
\* leaves the other classes' state alone
CdcOnly   == UNCHANGED <<cdcItf, dfuVars, rndisVars>>
DfuOnly   == UNCHANGED <<cdcVars, rndisVars>>
RndisOnly == UNCHANGED <<cdcVars, dfuVars>>

-----------------------------------------------------------------------------
(* Common definitions *)

\* pdev->pClassData == NULL
NULL == [null |-> TRUE]

\* a null data pointer
NULLPTR == "NULL"

\* USBD_StatusTypeDef
USBD_OK   == 0
USBD_BUSY == 1
USBD_FAIL == 2

\* in place of a return value: the handler dereferenced the null class handle
FAULT == -1

\* 2^16: the range of uint16_t, and of one half of a uint32_t
Pow16 == 65536

U16(x) == x % Pow16

\* A uint32_t is kept as <<high half, low half>> (each 0..65535), because the
\* checker's integers are themselves 32 bits wide; the operators below are the
\* C operators on uint32_t, wrapping at 2^32.
W32(hi, lo) == <<hi, lo>>

\* the uint32_t of a non-negative int below 2^31
ToU32(n) == <<(n \div Pow16) % Pow16, n % Pow16>>

Add32(a, b) ==
    LET lo == a[2] + b[2]
        hi == a[1] + b[1] + (lo \div Pow16)
    IN  <<hi % Pow16, lo % Pow16>>

Lt32(a, b) == a[1] < b[1] \/ (a[1] = b[1] /\ a[2] < b[2])

\* the integer value of a uint32_t, where it is known to be below 2^31
Val32(a) == a[1] * Pow16 + a[2]

\* what the low-level transmit / receive primitives may answer
LLStatus == {USBD_OK, USBD_BUSY, USBD_FAIL}

\* one step's bookkeeping
Observe(op, a, r, cs) ==
    /\ lastOp' = op
    /\ arg'    = a
    /\ ret'    = r
    /\ calls'  = cs
    /\ tick'   = ~tick

Call(fn, args) == [fn |-> fn, args |-> args]

CallsOf(fn) == {i \in 1..Len(calls) : calls[i].fn = fn}

-----------------------------------------------------------------------------
(* CDC class driver *)

\* caller buffers (addresses) and lengths used by the application
MaxBuf == 2
Buffers == {"buf" \o ToString(i) : i \in 1..MaxBuf}
CdcLengths == {0, 64}

\* control requests the host sends to the CDC interface: bRequest, wLength, direction
CdcOpCodes == {32, 255}
CdcWLengths == {0, 7}

\* the interface tables the application registers (USBD_CDC_RegisterInterface):
\* every callback present, or none
CdcItfAll  == [Control |-> TRUE, Transmitted |-> TRUE, Received |-> TRUE]
CdcItfNone == [Control |-> FALSE, Transmitted |-> FALSE, Received |-> FALSE]
CdcInterfaces == {CdcItfAll, CdcItfNone}

\* USBD_CDC_Init: the handle as the allocation leaves it and the assignments set it.
\* TxLength, CmdOpCode and CmdLength are not assigned: they hold whatever the
\* allocator returned.
CdcHandleAfterInit(junk) ==
    [TxState   |-> USBD_OK,
     TxBuffer  |-> NULLPTR,
     RxBuffer  |-> NULLPTR,
     TxLength  |-> junk.len,
     CmdOpCode |-> junk.op,
     CmdLength |-> junk.len]

CdcJunk == [len : {7}, op : {0, 255}]

USBD_CDC_Init ==
    /\ CdcOnly
    /\ hcdc = NULL
    /\ \E ok \in BOOLEAN, junk \in CdcJunk :
         /\ hcdc' = IF ok THEN CdcHandleAfterInit(junk) ELSE NULL
         /\ Observe("CDC_Init", <<>>, USBD_OK,
                    <<Call("USBD_LL_OpenEP", "CDC_IN_EP"),
                      Call("USBD_LL_OpenEP", "CDC_OUT_EP"),
                      Call("USBD_LL_OpenEP", "CDC_CMD_EP"),
                      Call("USBD_malloc", ok)>>
                    \o (IF ok THEN <<Call("Init", <<>>)>> ELSE <<>>))
    /\ cdcInXfer' = <<>>
    /\ cdcOutArm' = <<>>
    /\ cdcEp0' = "idle"

\* a DeInit that would release the handle without testing it
DeInitCallsUntested(h) == <<Call("DeInit", <<>>), Call("USBD_free", <<>>)>>

\* the user DeInit hook and the release of the handle, made by the DeInit of
\* each class when pdev->pClassData != NULL
DeInitCalls(h) ==
    IF h # NULL THEN <<Call("DeInit", <<>>), Call("USBD_free", <<>>)>> ELSE <<>>

USBD_CDC_DeInit ==
    /\ CdcOnly
    /\ hcdc' = NULL
    /\ cdcInXfer' = <<>>
    /\ cdcOutArm' = <<>>
    /\ cdcEp0' = "idle"
    /\ Observe("CDC_DeInit", <<>>, USBD_OK,
               <<Call("USBD_LL_CloseEP", "CDC_IN_EP"),
                 Call("USBD_LL_CloseEP", "CDC_OUT_EP"),
                 Call("USBD_LL_CloseEP", "CDC_CMD_EP")>>
               \o DeInitCalls(hcdc))

\* a driver that would skip the test of the transmit state
CdcTxAlwaysFree(h) == TRUE

\* the test "free to transmit" of USBD_CDC_Transmit
CdcTxFree(h) == h.TxState = USBD_OK

USBD_CDC_Transmit ==
    /\ CdcOnly
    /\ \E pbuff \in Buffers, length \in CdcLengths, ll \in LLStatus :
      IF hcdc = NULL
      THEN /\ Observe("CDC_Transmit", <<pbuff, length>>, USBD_FAIL, <<>>)
           /\ UNCHANGED cdcVars
      ELSE IF CdcTxFree(hcdc)
      THEN /\ hcdc' = [hcdc EXCEPT !.TxState = USBD_BUSY,
                                   !.TxBuffer = pbuff,
                                   !.TxLength = length]
           /\ cdcInXfer' = IF ll = USBD_OK
                           THEN Append(cdcInXfer, [buf |-> pbuff, len |-> length])
                           ELSE cdcInXfer
           /\ Observe("CDC_Transmit", <<pbuff, length>>, ll,
                      <<Call("USBD_LL_Transmit", <<"CDC_IN_EP", pbuff, length>>)>>)
           /\ UNCHANGED <<cdcOutArm, cdcEp0>>
      ELSE /\ Observe("CDC_Transmit", <<pbuff, length>>, hcdc.TxState, <<>>)
           /\ UNCHANGED cdcVars

\* a DataIn that would report the buffer without its length
TransmittedCallsNoLength(h, itf) ==
    IF itf.Transmitted
    THEN <<Call("Transmitted", <<h.TxBuffer, 0>>)>>
    ELSE <<>>

\* the user callback of USBD_CDC_DataIn
TransmittedCalls(h, itf) ==
    IF itf.Transmitted
    THEN <<Call("Transmitted", <<h.TxBuffer, h.TxLength>>)>>
    ELSE <<>>

\* completion of the bulk IN transfer (the core calls DataIn once the hardware is done)
USBD_CDC_DataIn ==
    /\ CdcOnly
    /\ cdcInXfer # <<>>
    /\ cdcInXfer' = Tail(cdcInXfer)
    /\ IF hcdc # NULL
       THEN /\ hcdc' = [hcdc EXCEPT !.TxState = USBD_OK]
            /\ Observe("CDC_DataIn", <<>>, USBD_OK, TransmittedCalls(hcdc, cdcItf))
       ELSE /\ hcdc' = hcdc
            /\ Observe("CDC_DataIn", <<>>, USBD_OK, <<>>)
    /\ UNCHANGED <<cdcOutArm, cdcEp0>>

USBD_CDC_Receive ==
    /\ CdcOnly
    /\ \E pbuff \in Buffers, length \in CdcLengths, ll \in LLStatus :
      IF hcdc = NULL
      THEN /\ Observe("CDC_Receive", <<pbuff, length>>, USBD_FAIL, <<>>)
           /\ UNCHANGED cdcVars
      ELSE /\ hcdc' = [hcdc EXCEPT !.RxBuffer = pbuff]
           /\ cdcOutArm' = IF ll = USBD_OK
                           THEN <<[buf |-> pbuff, len |-> length]>>
                           ELSE cdcOutArm
           /\ Observe("CDC_Receive", <<pbuff, length>>, ll,
                      <<Call("USBD_LL_PrepareReceive", <<"CDC_OUT_EP", pbuff, length>>)>>)
           /\ UNCHANGED <<cdcInXfer, cdcEp0>>

\* a DataOut that would report the buffer without the received size
ReceivedCallsNoSize(h, itf, n) ==
    IF itf.Received
    THEN <<Call("Received", <<h.RxBuffer, 0>>)>>
    ELSE <<>>

\* the user callback of USBD_CDC_DataOut
ReceivedCalls(h, itf, n) ==
    IF itf.Received
    THEN <<Call("Received", <<h.RxBuffer, n>>)>>
    ELSE <<>>

\* completion of the armed bulk OUT reception; the host sent n <= armed length bytes
USBD_CDC_DataOut ==
    /\ CdcOnly
    /\ cdcOutArm # <<>>
    /\ \E n \in CdcLengths :
         /\ n <= cdcOutArm[1].len
         /\ cdcOutArm' = <<>>
         /\ IF hcdc # NULL
            THEN Observe("CDC_DataOut", n, USBD_OK, ReceivedCalls(hcdc, cdcItf, n))
            ELSE Observe("CDC_DataOut", n, USBD_OK, <<>>)
    /\ UNCHANGED <<hcdc, cdcInXfer, cdcEp0>>

\* a class request on the control endpoint; in = TRUE is device-to-host (bmRequest & 0x80)
USBD_CDC_Setup ==
    /\ CdcOnly
    /\ \E bRequest \in CdcOpCodes, wLength \in CdcWLengths, in \in BOOLEAN :
         IF wLength # 0 /\ ~in /\ hcdc = NULL
         THEN /\ Observe("CDC_Setup", <<bRequest, wLength, in>>, FAULT, <<>>)
              /\ UNCHANGED <<hcdc, cdcInXfer, cdcOutArm, cdcEp0>>
         ELSE IF wLength # 0
         THEN IF in
              THEN /\ Observe("CDC_Setup", <<bRequest, wLength, in>>, USBD_OK,
                              IF cdcItf.Control
                              THEN <<Call("Control", <<bRequest, "data", wLength>>),
                                     Call("USBD_CtlSendData", <<"data", wLength>>)>>
                              ELSE <<>>)
                   /\ cdcEp0' = "idle"
                   /\ UNCHANGED <<hcdc, cdcInXfer, cdcOutArm>>
              ELSE /\ hcdc' = [hcdc EXCEPT !.CmdOpCode = bRequest,
                                           !.CmdLength = wLength]
                   /\ cdcEp0' = "rx"
                   /\ Observe("CDC_Setup", <<bRequest, wLength, in>>, USBD_OK,
                              <<Call("USBD_CtlPrepareRx", <<"data", wLength>>)>>)
                   /\ UNCHANGED <<cdcInXfer, cdcOutArm>>
         ELSE /\ Observe("CDC_Setup", <<bRequest, wLength, in>>, USBD_OK,
                         IF cdcItf.Control
                         THEN <<Call("Control", <<bRequest, "req", 0>>)>>
                         ELSE <<>>)
              /\ cdcEp0' = "idle"
              /\ UNCHANGED <<hcdc, cdcInXfer, cdcOutArm>>

\* USBD_CDC_EP0_RxReady, called by the device core when the data stage of a
\* control OUT transfer has arrived: for a transfer that USBD_CDC_Setup armed
\* or, with anytime, for whatever transfer the core completed
CdcRxReady(anytime) ==
    /\ CdcOnly
    /\ anytime \/ cdcEp0 = "rx"
    /\ cdcEp0' = "idle"
    /\ IF cdcItf.Control /\ hcdc # NULL /\ hcdc.CmdOpCode # 255
       THEN /\ hcdc' = [hcdc EXCEPT !.CmdOpCode = 255]
            /\ Observe("CDC_EP0_RxReady", <<>>, USBD_OK,
                       <<Call("Control", <<hcdc.CmdOpCode, "data", hcdc.CmdLength>>)>>)
       ELSE /\ hcdc' = hcdc
            /\ Observe("CDC_EP0_RxReady", <<>>, USBD_OK, <<>>)
    /\ UNCHANGED <<cdcInXfer, cdcOutArm>>

\* the data stage of a class request that USBD_CDC_Setup staged has arrived
USBD_CDC_EP0_RxReady == CdcRxReady(FALSE)

\* the callback as the class table exposes it to the core, staged or not
CDC_EP0_RxReady_Any == CdcRxReady(TRUE)

\* the control endpoint alone, with every order of Init, Setup and EP0_RxReady
NextCDCCtl ==
    \/ USBD_CDC_Init
    \/ USBD_CDC_DeInit
    \/ USBD_CDC_Setup
    \/ CDC_EP0_RxReady_Any

NextCDC ==
    \/ USBD_CDC_Init
    \/ USBD_CDC_DeInit
    \/ USBD_CDC_Transmit
    \/ USBD_CDC_DataIn
    \/ USBD_CDC_Receive
    \/ USBD_CDC_DataOut
    \/ USBD_CDC_Setup
    \/ USBD_CDC_EP0_RxReady

-----------------------------------------------------------------------------
(* DFU class driver *)

\* DFU 1.1 state codes (bState), status codes (bStatus), manifestation sub-states,
\* the block-0 commands and the media operation codes
DFU_STATE_IDLE                == 2
DFU_STATE_DNLOAD_SYNC         == 3
DFU_STATE_DNLOAD_BUSY         == 4
DFU_STATE_DNLOAD_IDLE         == 5
DFU_STATE_MANIFEST_SYNC       == 6
DFU_STATE_MANIFEST            == 7
DFU_STATE_MANIFEST_WAIT_RESET == 8
DFU_STATE_UPLOAD_IDLE         == 9
DFU_STATE_ERROR               == 10

DFU_ERROR_NONE       == 0
DFU_ERROR_UNKNOWN    == 14
DFU_ERROR_STALLEDPKT == 15

DFU_MANIFEST_COMPLETE    == 0
DFU_MANIFEST_IN_PROGRESS == 1

DFU_CMD_GETCOMMANDS       == 0
DFU_CMD_SETADDRESSPOINTER == 33
DFU_CMD_ERASE             == 65

DFU_MEDIA_ERASE   == 0
DFU_MEDIA_PROGRAM == 1

\* bytes per block (usbd_conf.h; the descriptor comment and the specification use 1024)
USBD_DFU_XFER_SIZE == 1024

\* bit 2 of bmAttributes of the DFU functional descriptor, which the descriptor
\* table never sets
DFU_MANIFEST_TOLERANT == FALSE

DfuStates ==
    {DFU_STATE_IDLE, DFU_STATE_DNLOAD_SYNC, DFU_STATE_DNLOAD_BUSY,
     DFU_STATE_DNLOAD_IDLE, DFU_STATE_MANIFEST_SYNC, DFU_STATE_MANIFEST,
     DFU_STATE_MANIFEST_WAIT_RESET, DFU_STATE_UPLOAD_IDLE, DFU_STATE_ERROR}

\* the states in which DFU_Abort and DFU_Detach act
DfuAbortable(h) ==
    \/ h.dev_state = DFU_STATE_IDLE
    \/ h.dev_state = DFU_STATE_DNLOAD_SYNC
    \/ h.dev_state = DFU_STATE_DNLOAD_IDLE
    \/ h.dev_state = DFU_STATE_MANIFEST_SYNC
    \/ h.dev_state = DFU_STATE_UPLOAD_IDLE

\* What the host and the medium supply ----------------------------------

\* wValue (the block number) and wLength of the DNLOAD / UPLOAD requests the
\* host sends; the last one asks for one byte more than a block holds
DfuBlocks   == {0, 1, 2, 3, 1000}
DfuWLengths == {0, 1, 5, USBD_DFU_XFER_SIZE + 1}
DfuRequests ==
    {<<0, 0>>, <<0, 1>>, <<0, 5>>, <<1, 5>>, <<2, 5>>, <<3, 1>>, <<1000, 5>>,
     <<3, USBD_DFU_XFER_SIZE + 1>>}

\* 0x08008000 (the medium's StartAddress) and 0xFFFFFC00, as uint32_t and as the
\* four little-endian bytes a block-0 command carries
StartAddress == W32(2048, 32768)
HighAddress  == W32(65535, 64512)
StartBytes   == <<0, 128, 0, 8>>
HighBytes    == <<0, 252, 255, 255>>

\* the payloads of a DNLOAD data stage: a command byte alone, or a command
\* byte and an address
DfuPayloads ==
    {<<DFU_CMD_GETCOMMANDS>>,
     <<DFU_CMD_SETADDRESSPOINTER>> \o HighBytes,
     <<DFU_CMD_ERASE>> \o StartBytes,
     <<119>> \o HighBytes}

\* what the medium's Read callback delivers
DfuReadData == {<<119>>, <<119>> \o HighBytes}

\* bwPollTimeout values the medium's GetStatus callback reports
PollTimeouts == {50}

\* the first five bytes of hdfu->buffer as the allocator leaves them
DfuJunkBuffers == {<<DFU_CMD_ERASE, 255, 255, 255, 255>>}

\* Helpers ----------------------------------------------------------------

\* dev_status[i], with the C index
St(h, i) == h.dev_status[i + 1]

\* an update of the poll timeout that would leave the state byte as it was
SetPollOnly(h, t) ==
    [h EXCEPT !.dev_status = [@ EXCEPT ![2] = t, ![3] = 0, ![4] = 0]]

\* dev_status[1..3] = 0,0,0 (or t,0,0) and dev_status[4] = dev_state
SetPoll(h, t) ==
    [h EXCEPT !.dev_status = [@ EXCEPT ![2] = t, ![3] = 0, ![4] = 0,
                                       ![5] = h.dev_state]]

\* all six bytes: bStatus = err, bwPollTimeout = 0, bState = dev_state, iString = 0
SetStatus(h, err) ==
    [h EXCEPT !.dev_status = <<err, 0, 0, 0, h.dev_state, 0>>]

\* an address that would be read from the payload most significant byte first
AddrOfBufferBigEndian(b) == W32(b[3] + 256 * b[2], b[5] + 256 * b[4])

\* buffer.d8[1] | d8[2] << 8 | d8[3] << 16 | d8[4] << 24
AddrOfBuffer(b) == W32(b[4] + 256 * b[5], b[2] + 256 * b[3])

\* a block address that would leave out the base address
BlockAddrNoBase(h) == ToU32((h.wblock_num - 2) * USBD_DFU_XFER_SIZE)

\* a block address that would count the blocks from 1
BlockAddrFromOne(h) ==
    Add32(ToU32((h.wblock_num - 1) * USBD_DFU_XFER_SIZE), h.data_ptr)

\* ((wblock_num - 2) * USBD_DFU_XFER_SIZE) + data_ptr, in uint32_t
BlockAddr(h) == Add32(ToU32((h.wblock_num - 2) * USBD_DFU_XFER_SIZE), h.data_ptr)

\* the bytes of the payload that a data stage of n bytes writes into the buffer
Arrive(buf, p, n) == [i \in 1..5 |-> IF i <= n /\ i <= Len(p) THEN p[i] ELSE buf[i]]

\* progress along DNLOAD(wLength > 0) from IDLE, data arrival, GETSTATUS,
\* completion of the status transfer, GETSTATUS
RtNext(ev, fromIdle) ==
    CASE ev = "DNLOAD" /\ fromIdle      -> 1
      [] ev = "RXDATA" /\ rt = 1        -> 2
      [] ev = "GETSTATUS" /\ rt = 2     -> 3
      [] ev = "TXSENT" /\ rt = 3        -> 4
      [] ev = "GETSTATUS" /\ rt = 4     -> 5
      [] OTHER                          -> 0

\* a handler that dereferences the null class handle: the access traps and the
\* device stops, or it goes through (address 0 is mapped) and the device goes on
DfuFault(op) ==
    /\ dfuHalt' \in BOOLEAN
    /\ Observe(op, <<>>, FAULT, <<>>)
    /\ UNCHANGED <<hdfu, dfuEp0, rt>>

\* Handlers ---------------------------------------------------------------

DfuHandleAfterInit(junk) ==
    [data_ptr    |-> StartAddress,
     wblock_num  |-> 0,
     wlength     |-> 0,
     manif_state |-> DFU_MANIFEST_COMPLETE,
     dev_state   |-> DFU_STATE_IDLE,
     dev_status  |-> <<DFU_ERROR_NONE, 0, 0, 0, DFU_STATE_IDLE, 0>>,
     buffer      |-> junk]

USBD_DFU_Init ==
    /\ DfuOnly
    /\ ~dfuHalt
    /\ hdfu = NULL
    /\ \E ok \in BOOLEAN, junk \in DfuJunkBuffers :
         /\ hdfu' = IF ok THEN DfuHandleAfterInit(junk) ELSE NULL
         /\ Observe("DFU_Init", <<>>, USBD_OK,
                    <<Call("USBD_malloc", ok)>>
                    \o (IF ok THEN <<Call("Init", <<>>)>> ELSE <<>>))
    /\ dfuEp0' = <<"idle", 0>>
    /\ rt' = 0
    /\ UNCHANGED dfuHalt

USBD_DFU_DeInit ==
    /\ DfuOnly
    /\ ~dfuHalt
    /\ hdfu' = NULL
    /\ dfuEp0' = <<"idle", 0>>
    /\ rt' = 0
    /\ Observe("DFU_DeInit", <<>>, USBD_OK,
               DeInitCalls(hdfu))
    /\ UNCHANGED dfuHalt

\* a DFU_Download that would accept the request in every state
DownloadHandleAnyState(h, wValue, wLength) ==
    IF wLength > 0
    THEN LET h1 == [h EXCEPT !.wblock_num = wValue,
                             !.wlength    = wLength,
                             !.dev_state  = DFU_STATE_DNLOAD_SYNC]
         IN  [h1 EXCEPT !.dev_status[5] = h1.dev_state]
    ELSE SetPoll([h EXCEPT !.manif_state = DFU_MANIFEST_IN_PROGRESS,
                           !.dev_state   = DFU_STATE_MANIFEST_SYNC], 0)

\* the handle after DFU_Download
DownloadHandle(h, wValue, wLength) ==
    IF wLength > 0
    THEN IF h.dev_state = DFU_STATE_IDLE \/ h.dev_state = DFU_STATE_DNLOAD_IDLE
         THEN LET h1 == [h EXCEPT !.wblock_num = wValue,
                                  !.wlength    = wLength,
                                  !.dev_state  = DFU_STATE_DNLOAD_SYNC]
              IN  [h1 EXCEPT !.dev_status[5] = h1.dev_state]
         ELSE h
    ELSE IF h.dev_state = DFU_STATE_DNLOAD_IDLE \/ h.dev_state = DFU_STATE_IDLE
         THEN SetPoll([h EXCEPT !.manif_state = DFU_MANIFEST_IN_PROGRESS,
                                !.dev_state   = DFU_STATE_MANIFEST_SYNC], 0)
         ELSE h

DFU_Download ==
    /\ DfuOnly
    /\ ~dfuHalt
    /\ \E wValue \in DfuBlocks, wLength \in DfuWLengths :
         /\ <<wValue, wLength>> \in DfuRequests
         /\ IF hdfu = NULL THEN DfuFault("DFU_Download")
            ELSE LET accepted == hdfu.dev_state = DFU_STATE_IDLE
                                 \/ hdfu.dev_state = DFU_STATE_DNLOAD_IDLE
                 IN  /\ hdfu' = DownloadHandle(hdfu, wValue, wLength)
                     /\ dfuEp0' = IF accepted /\ wLength > 0
                                  THEN <<"rx", wLength>> ELSE <<"idle", 0>>
                     /\ rt' = RtNext("DNLOAD", wLength > 0
                                               /\ hdfu.dev_state = DFU_STATE_IDLE)
                     /\ Observe("DFU_Download", <<wValue, wLength>>, USBD_OK,
                                IF ~accepted THEN <<Call("USBD_CtlError", <<>>)>>
                                ELSE IF wLength > 0
                                THEN <<Call("USBD_CtlPrepareRx", <<"buffer", wLength>>)>>
                                ELSE <<>>)
                     /\ UNCHANGED dfuHalt

\* the data stage of a DNLOAD arrives in hdfu->buffer; the class table has no
\* EP0_RxReady entry, so no handler of the driver runs
DFU_EP0_RxReady ==
    /\ DfuOnly
    /\ ~dfuHalt
    /\ dfuEp0[1] = "rx"
    /\ hdfu # NULL
    /\ \E p \in DfuPayloads :
         /\ Len(p) = dfuEp0[2]
         /\ hdfu' = [hdfu EXCEPT !.buffer = Arrive(@, p, dfuEp0[2])]
    /\ dfuEp0' = <<"idle", 0>>
    /\ rt' = RtNext("RXDATA", FALSE)
    /\ Observe("DFU_EP0_RxReady", <<>>, USBD_OK, <<>>)
    /\ UNCHANGED dfuHalt

\* the handle after DFU_Upload
UploadHandle(h, wValue, wLength) ==
    IF wLength > 0
    THEN IF h.dev_state = DFU_STATE_IDLE \/ h.dev_state = DFU_STATE_UPLOAD_IDLE
         THEN LET h1 == [h EXCEPT !.wblock_num = wValue, !.wlength = wLength]
              IN  IF h1.wblock_num = 0
                  THEN LET h2 == SetPoll([h1 EXCEPT !.dev_state =
                                              IF h1.wlength > 3
                                              THEN DFU_STATE_IDLE
                                              ELSE DFU_STATE_UPLOAD_IDLE], 0)
                       IN  [h2 EXCEPT !.buffer[1] = DFU_CMD_GETCOMMANDS,
                                      !.buffer[2] = DFU_CMD_SETADDRESSPOINTER,
                                      !.buffer[3] = DFU_CMD_ERASE]
                  ELSE IF h1.wblock_num > 1
                  THEN SetPoll([h1 EXCEPT !.dev_state = DFU_STATE_UPLOAD_IDLE], 0)
                  ELSE SetPoll([h1 EXCEPT !.dev_state = DFU_ERROR_STALLEDPKT], 0)
         ELSE [h EXCEPT !.wlength = 0, !.wblock_num = 0]
    ELSE SetPoll([h EXCEPT !.dev_state = DFU_STATE_IDLE], 0)

\* a DFU_Upload that would answer in every state
UploadCallsAnyState(h, wValue, wLength) ==
    IF wLength > 0
    THEN IF wValue = 0
         THEN <<Call("USBD_CtlSendData", <<"buffer", 3>>)>>
         ELSE IF wValue > 1
         THEN <<Call("Read", <<"buffer",
                               BlockAddr([h EXCEPT !.wblock_num = wValue]),
                               wLength>>),
                Call("USBD_CtlSendData", <<"buffer", wLength>>)>>
         ELSE <<Call("USBD_CtlError", <<>>)>>
    ELSE <<>>

\* the external calls of DFU_Upload
UploadCalls(h, wValue, wLength) ==
    IF wLength > 0
    THEN IF h.dev_state = DFU_STATE_IDLE \/ h.dev_state = DFU_STATE_UPLOAD_IDLE
         THEN IF wValue = 0
              THEN <<Call("USBD_CtlSendData", <<"buffer", 3>>)>>
              ELSE IF wValue > 1
              THEN <<Call("Read", <<"buffer",
                                    BlockAddr([h EXCEPT !.wblock_num = wValue]),
                                    wLength>>),
                     Call("USBD_CtlSendData", <<"buffer", wLength>>)>>
              ELSE <<Call("USBD_CtlError", <<>>)>>
         ELSE <<Call("USBD_CtlError", <<>>)>>
    ELSE <<>>

\* the control data stage a handler leaves armed, from the calls it made
Ep0After(cs) ==
    IF \E i \in 1..Len(cs) : cs[i].fn = "USBD_CtlSendData"
    THEN <<"tx", 0>>
    ELSE <<"idle", 0>>

\* the medium's Read callback fills the buffer with the block's content
DFU_Upload ==
    /\ DfuOnly
    /\ ~dfuHalt
    /\ \E wValue \in DfuBlocks, wLength \in DfuWLengths, p \in DfuReadData :
         /\ <<wValue, wLength>> \in DfuRequests
         /\ IF hdfu = NULL THEN DfuFault("DFU_Upload")
            ELSE LET cs == UploadCalls(hdfu, wValue, wLength)
                     h1 == UploadHandle(hdfu, wValue, wLength)
                     rd == \E i \in 1..Len(cs) : cs[i].fn = "Read"
                 IN  /\ hdfu' = IF rd THEN [h1 EXCEPT !.buffer = Arrive(@, p, wLength)]
                                ELSE h1
                     /\ Len(p) = (IF rd THEN wLength ELSE 1)
                     /\ dfuEp0' = Ep0After(cs)
                     /\ rt' = RtNext("UPLOAD", FALSE)
                     /\ Observe("DFU_Upload", <<wValue, wLength>>, USBD_OK, cs)
                     /\ UNCHANGED dfuHalt

\* a DFU_GetStatus that would enter MANIFEST without a poll timeout
GetStatusHandleNoPoll(h) ==
    IF h.dev_state = DFU_STATE_DNLOAD_SYNC
    THEN IF h.wlength # 0
         THEN SetPoll([h EXCEPT !.dev_state = DFU_STATE_DNLOAD_BUSY], 0)
         ELSE SetPoll([h EXCEPT !.dev_state = DFU_STATE_DNLOAD_IDLE], 0)
    ELSE IF h.dev_state = DFU_STATE_MANIFEST_SYNC
    THEN SetPoll([h EXCEPT !.dev_state = DFU_STATE_MANIFEST], 0)
    ELSE h

\* the handle after the state switch of DFU_GetStatus, before the medium's
\* GetStatus callback
GetStatusHandle(h) ==
    IF h.dev_state = DFU_STATE_DNLOAD_SYNC
    THEN IF h.wlength # 0
         THEN SetPoll([h EXCEPT !.dev_state = DFU_STATE_DNLOAD_BUSY], 0)
         ELSE SetPoll([h EXCEPT !.dev_state = DFU_STATE_DNLOAD_IDLE], 0)
    ELSE IF h.dev_state = DFU_STATE_MANIFEST_SYNC
    THEN IF h.manif_state = DFU_MANIFEST_IN_PROGRESS
         THEN SetPoll([h EXCEPT !.dev_state = DFU_STATE_MANIFEST], 1)
         ELSE IF h.manif_state = DFU_MANIFEST_COMPLETE /\ DFU_MANIFEST_TOLERANT
         THEN SetPoll([h EXCEPT !.dev_state = DFU_STATE_IDLE], 0)
         ELSE h
    ELSE h

\* a DFU_GetStatus that would always name the program operation
MediaOpProgram(h) == DFU_MEDIA_PROGRAM

\* the operation DFU_GetStatus names to the medium
MediaOp(h) ==
    IF h.wblock_num = 0 /\ h.buffer[1] = DFU_CMD_ERASE
    THEN DFU_MEDIA_ERASE
    ELSE DFU_MEDIA_PROGRAM

\* the medium's GetStatus callback writes the poll timeout (bytes 1..3)
DFU_GetStatus ==
    /\ DfuOnly
    /\ ~dfuHalt
    /\ \E t \in PollTimeouts \cup {0} :
         IF hdfu = NULL THEN DfuFault("DFU_GetStatus")
         ELSE LET busy == hdfu.dev_state = DFU_STATE_DNLOAD_SYNC /\ hdfu.wlength # 0
                  h1   == GetStatusHandle(hdfu)
                  h2   == IF busy THEN [h1 EXCEPT !.dev_status[2] = t] ELSE h1
              IN  /\ (IF busy THEN t \in PollTimeouts ELSE t = 0)
                  /\ hdfu' = h2
                  /\ dfuEp0' = <<"tx", 0>>
                  /\ rt' = RtNext("GETSTATUS", FALSE)
                  /\ Observe("DFU_GetStatus", <<>>, USBD_OK,
                             (IF busy
                              THEN <<Call("GetStatus", <<hdfu.data_ptr, MediaOp(hdfu)>>)>>
                              ELSE <<>>)
                             \o <<Call("USBD_CtlSendData", <<h2.dev_status, 6>>)>>)
                  /\ UNCHANGED dfuHalt

\* a DFU_ClearStatus that would enter ERROR from every state
ClearStatusHandleToError(h) ==
    SetStatus([h EXCEPT !.dev_state = DFU_STATE_ERROR], DFU_ERROR_UNKNOWN)

\* the handle after DFU_ClearStatus
ClearStatusHandle(h) ==
    IF h.dev_state = DFU_STATE_ERROR
    THEN SetStatus([h EXCEPT !.dev_state = DFU_STATE_IDLE], DFU_ERROR_NONE)
    ELSE SetStatus([h EXCEPT !.dev_state = DFU_STATE_ERROR], DFU_ERROR_UNKNOWN)

DFU_ClearStatus ==
    /\ DfuOnly
    /\ ~dfuHalt
    /\ IF hdfu = NULL THEN DfuFault("DFU_ClearStatus")
       ELSE /\ hdfu' = ClearStatusHandle(hdfu)
            /\ dfuEp0' = <<"idle", 0>>
            /\ rt' = RtNext("CLEARSTATUS", FALSE)
            /\ Observe("DFU_ClearStatus", <<>>, USBD_OK, <<>>)
            /\ UNCHANGED dfuHalt

DFU_GetState ==
    /\ DfuOnly
    /\ ~dfuHalt
    /\ IF hdfu = NULL THEN DfuFault("DFU_GetState")
       ELSE /\ dfuEp0' = <<"tx", 0>>
            /\ rt' = RtNext("GETSTATE", FALSE)
            /\ Observe("DFU_GetState", <<>>, USBD_OK,
                       <<Call("USBD_CtlSendData", <<hdfu.dev_state, 1>>)>>)
            /\ UNCHANGED <<hdfu, dfuHalt>>

\* a DFU_Abort that would reset the state machine in every state
AbortHandleAlways(h) ==
    [SetStatus([h EXCEPT !.dev_state = DFU_STATE_IDLE], DFU_ERROR_NONE)
       EXCEPT !.wblock_num = 0, !.wlength = 0]

\* the handle after DFU_Abort
AbortHandle(h) ==
    IF DfuAbortable(h)
    THEN [SetStatus([h EXCEPT !.dev_state = DFU_STATE_IDLE], DFU_ERROR_NONE)
            EXCEPT !.wblock_num = 0, !.wlength = 0]
    ELSE h

DFU_Abort ==
    /\ DfuOnly
    /\ ~dfuHalt
    /\ IF hdfu = NULL THEN DfuFault("DFU_Abort")
       ELSE /\ hdfu' = AbortHandle(hdfu)
            /\ dfuEp0' = <<"idle", 0>>
            /\ rt' = RtNext("ABORT", FALSE)
            /\ Observe("DFU_Abort", <<>>, USBD_OK, <<>>)
            /\ UNCHANGED dfuHalt

\* the handle after the state part of DFU_Detach
DetachHandle(h) ==
    IF DfuAbortable(h)
    THEN [SetStatus([h EXCEPT !.dev_state = DFU_STATE_IDLE], DFU_ERROR_NONE)
            EXCEPT !.wblock_num = 0, !.wlength = 0]
    ELSE h

\* USBD_DFU_DETACH_SUPPORT selects, at build time, between a stop/start cycle
\* of the device and a delay of wValue milliseconds
DFU_Detach ==
    /\ DfuOnly
    /\ ~dfuHalt
    /\ \E willDetach \in BOOLEAN :
         IF hdfu = NULL THEN DfuFault("DFU_Detach")
         ELSE /\ hdfu' = DetachHandle(hdfu)
              /\ dfuEp0' = <<"idle", 0>>
              /\ rt' = RtNext("DETACH", FALSE)
              /\ Observe("DFU_Detach", <<>>, USBD_OK,
                         IF willDetach
                         THEN <<Call("USBD_Stop", <<>>), Call("USBD_Start", <<>>)>>
                         ELSE <<Call("USBD_Delay", <<>>)>>)
              /\ UNCHANGED dfuHalt

\* a completion callback that would go back to DNLOAD_SYNC with the block
\* still pending
TxReadyKeepsPending(h) ==
    SetPoll([h EXCEPT !.dev_state = DFU_STATE_DNLOAD_SYNC], 0)

\* the handle after the DNLOAD_BUSY branch of USBD_DFU_EP0_TxReady
TxReadyBusyHandle(h) ==
    LET h1 == IF h.wblock_num = 0
                 /\ ~(h.buffer[1] = DFU_CMD_GETCOMMANDS /\ h.wlength = 1)
                 /\ (\/ h.buffer[1] = DFU_CMD_SETADDRESSPOINTER /\ h.wlength = 5
                     \/ h.buffer[1] = DFU_CMD_ERASE /\ h.wlength = 5)
              THEN [h EXCEPT !.data_ptr = AddrOfBuffer(h.buffer)]
              ELSE h
    IN  SetPoll([h1 EXCEPT !.wlength = 0, !.wblock_num = 0,
                           !.dev_state = DFU_STATE_DNLOAD_SYNC], 0)

\* the external calls of that branch
TxReadyBusyCalls(h) ==
    IF h.wblock_num = 0
    THEN IF h.buffer[1] = DFU_CMD_GETCOMMANDS /\ h.wlength = 1
         THEN <<>>
         ELSE IF h.buffer[1] = DFU_CMD_SETADDRESSPOINTER /\ h.wlength = 5
         THEN <<>>
         ELSE IF h.buffer[1] = DFU_CMD_ERASE /\ h.wlength = 5
         THEN <<Call("Erase", <<AddrOfBuffer(h.buffer)>>)>>
         ELSE <<Call("USBD_CtlError", <<>>)>>
    ELSE IF h.wblock_num > 1
    THEN <<Call("Write", <<BlockAddr(h), "buffer", h.wlength>>)>>
    ELSE <<>>

\* a DFU_Leave that would leave the manifestation sub-state in progress
LeaveHandleInProgress(h) ==
    IF DFU_MANIFEST_TOLERANT
    THEN SetPoll([h EXCEPT !.dev_state = DFU_STATE_MANIFEST_SYNC], 0)
    ELSE SetPoll([h EXCEPT !.dev_state = DFU_STATE_MANIFEST_WAIT_RESET], 0)

\* the handle after DFU_Leave
LeaveHandle(h) ==
    LET h1 == [h EXCEPT !.manif_state = DFU_MANIFEST_COMPLETE]
    IN  IF DFU_MANIFEST_TOLERANT
        THEN SetPoll([h1 EXCEPT !.dev_state = DFU_STATE_MANIFEST_SYNC], 0)
        ELSE SetPoll([h1 EXCEPT !.dev_state = DFU_STATE_MANIFEST_WAIT_RESET], 0)

\* the data stage of a control IN transfer has been sent (the EP0_TxSent entry
\* of the class table)
USBD_DFU_EP0_TxReady ==
    /\ DfuOnly
    /\ ~dfuHalt
    /\ dfuEp0[1] = "tx"
    /\ dfuEp0' = <<"idle", 0>>
    /\ rt' = RtNext("TXSENT", FALSE)
    /\ IF hdfu = NULL THEN FALSE
       ELSE IF hdfu.dev_state = DFU_STATE_DNLOAD_BUSY
       THEN /\ hdfu' = TxReadyBusyHandle(hdfu)
            /\ Observe("DFU_EP0_TxReady", <<>>, USBD_OK, TxReadyBusyCalls(hdfu))
            /\ UNCHANGED dfuHalt
       ELSE IF hdfu.dev_state = DFU_STATE_MANIFEST
       THEN /\ hdfu' = LeaveHandle(hdfu)
            /\ dfuHalt' = ~DFU_MANIFEST_TOLERANT
            /\ Observe("DFU_EP0_TxReady", <<>>, USBD_OK,
                       IF DFU_MANIFEST_TOLERANT THEN <<>>
                       ELSE <<Call("USBD_DeInit", <<>>),
                              Call("USBD_SystemReset", <<>>)>>)
       ELSE /\ Observe("DFU_EP0_TxReady", <<>>, USBD_OK, <<>>)
            /\ UNCHANGED <<hdfu, dfuHalt>>

NextDFU ==
    \/ USBD_DFU_Init
    \/ USBD_DFU_DeInit
    \/ DFU_Download
    \/ DFU_EP0_RxReady
    \/ DFU_Upload
    \/ DFU_GetStatus
    \/ DFU_ClearStatus
    \/ DFU_GetState
    \/ DFU_Abort
    \/ DFU_Detach
    \/ USBD_DFU_EP0_TxReady

-----------------------------------------------------------------------------
(* RNDIS class driver *)

\* RNDIS_MsgType
REMOTE_NDIS_PACKET_MSG          == W32(0, 1)
REMOTE_NDIS_INITIALIZE_MSG      == W32(0, 2)
REMOTE_NDIS_INITIALIZE_CMPLT    == W32(32768, 2)
REMOTE_NDIS_HALT_MSG            == W32(0, 3)
REMOTE_NDIS_QUERY_MSG           == W32(0, 4)
REMOTE_NDIS_QUERY_CMPLT         == W32(32768, 4)
REMOTE_NDIS_SET_MSG             == W32(0, 5)
REMOTE_NDIS_SET_CMPLT           == W32(32768, 5)
REMOTE_NDIS_RESET_MSG           == W32(0, 6)
REMOTE_NDIS_RESET_CMPLT         == W32(32768, 6)
REMOTE_NDIS_INDICATE_STATUS_MSG == W32(0, 7)
REMOTE_NDIS_KEEPALIVE_MSG       == W32(0, 8)
REMOTE_NDIS_KEEPALIVE_CMPLT     == W32(32768, 8)

\* RNDIS_StatusType
RNDIS_STATUS_SUCCESS       == W32(0, 0)
RNDIS_STATUS_FAILURE       == W32(49152, 1)
RNDIS_STATUS_NOT_SUPPORTED == W32(49152, 187)

\* 0x00010101
OID_GEN_SUPPORTED_LIST == W32(1, 257)

\* sizeof(...) of the message records, in bytes, and offsetof(..., DataOffset),
\* offsetof(..., RequestID)
SizeofPacketMsg      == 44
SizeofInitCmplt      == 52
SizeofQueryCmplt     == 24
SizeofSetCmplt       == 16
SizeofResetCmplt     == 16
SizeofKeepAliveCmplt == 16
SizeofIndStatusMsg   == 20
OffsetofDataOffset   == 8
OffsetofRequestID    == 8

RNDIS_CMD_PACKET_SIZE   == 8
RNDIS_EP0_RESERVED_SIZE == 13

\* words of hrndis->data beyond the reserved ones that the model keeps
\* (RNDIS_DATA_HS_MAX_PACKET_SIZE / 4 in the driver)
ExtraWords == 1
DataWords  == RNDIS_EP0_RESERVED_SIZE + ExtraWords

\* RNDIS_InitCmplt
RNDIS_InitCmplt ==
    <<REMOTE_NDIS_INITIALIZE_CMPLT, ToU32(SizeofInitCmplt), W32(0, 0),
      RNDIS_STATUS_SUCCESS, W32(0, 1), W32(0, 0), W32(0, 1), W32(0, 0),
      W32(0, 1), ToU32(SizeofPacketMsg), W32(0, 0), W32(0, 0), W32(0, 0)>>

\* What the application and the host supply -------------------------------

\* the object identifiers the application may register
OID_A == W32(1, 258)
OID_B == W32(1, 262)
OID_C == W32(257, 257)

\* largest registered object table
MaxOids == 3

\* the registered object tables: MaxOids - 1 and MaxOids entries
OidTables ==
    {[i \in 1..n |-> IF i % 2 = 1 THEN OID_A ELSE OID_B] :
        n \in {MaxOids - 1, MaxOids}}

ReqIds == {W32(0, 1), W32(65535, 65534)}

\* control messages the host sends (the words of the data stage); the second
\* keep-alive announces more bytes than the data stage carries
HostMsgs ==
    {<<REMOTE_NDIS_KEEPALIVE_MSG, ToU32(12), id>> : id \in ReqIds}
    \cup {<<REMOTE_NDIS_KEEPALIVE_MSG, ToU32(16), W32(0, 1)>>,
          <<REMOTE_NDIS_HALT_MSG, ToU32(12), W32(0, 1)>>,
          <<REMOTE_NDIS_RESET_MSG, ToU32(12), W32(0, 0)>>}
    \cup {<<REMOTE_NDIS_INITIALIZE_MSG, ToU32(24), id, W32(0, 1), W32(0, 0),
            W32(0, 16384)>> : id \in ReqIds}
    \cup {<<REMOTE_NDIS_QUERY_MSG, ToU32(28), W32(0, 1), oid, W32(0, 0), W32(0, 0),
            W32(0, 0)>> : oid \in {OID_GEN_SUPPORTED_LIST, OID_A, OID_C}}
    \cup {<<REMOTE_NDIS_SET_MSG, ToU32(32), W32(0, 1), OID_B, W32(0, 4), W32(0, 20),
            rsv, W32(0, 9)>> : rsv \in {W32(0, 0), W32(0, 1)}}

HostWLengths == {4 * Len(m) : m \in HostMsgs}

\* what a QuerySetServer callback answers: a status, and for a query the
\* length and the word it writes
ServerStatus == {RNDIS_STATUS_SUCCESS, RNDIS_STATUS_NOT_SUPPORTED}
ServerLens   == {0, 4}
ServerWord   == W32(4660, 22136)

\* MaxTransferSize values the user Init hook writes into the response (0: none)
InitHookSizes == {0, 20, 2000}

\* MessageLength of the packet messages the application transmits
TxMsgLengths == {W32(0, 44), W32(1, 0)}

\* capacities of the receive buffers the application registers
RxSizes == {100, 1600}

\* the fields of a frame received on the bulk OUT endpoint, and its byte count
RxFrames ==
    [MessageType   : {REMOTE_NDIS_PACKET_MSG},
     MessageLength : {W32(0, 99), W32(0, 100)},
     DataOffset    : {W32(0, 36), W32(0, 44)},
     DataLength    : {W32(0, 56)},
     rxLength      : {99, 100}]
    \cup
    [MessageType   : {REMOTE_NDIS_PACKET_MSG},
     MessageLength : {W32(0, 100)},
     DataOffset    : {W32(65535, 65528)},
     DataLength    : {W32(0, 56), W32(0, 100)},
     rxLength      : {100}]
    \cup
    [MessageType   : {REMOTE_NDIS_PACKET_MSG},
     MessageLength : {W32(0, 100)},
     DataOffset    : {W32(65535, 65520)},
     DataLength    : {W32(0, 108)},
     rxLength      : {100}]
    \cup
    [MessageType   : {REMOTE_NDIS_KEEPALIVE_MSG},
     MessageLength : {W32(0, 100)},
     DataOffset    : {W32(0, 36)},
     DataLength    : {W32(0, 56)},
     rxLength      : {100}]
    \cup
    [MessageType   : {REMOTE_NDIS_PACKET_MSG},
     MessageLength : {W32(0, 108)},
     DataOffset    : {W32(0, 44)},
     DataLength    : {W32(0, 56)},
     rxLength      : {108}]

\* hrndis->data as the allocator leaves it
RndisJunkWords == {W32(43690, 21845)}

\* Helpers ----------------------------------------------------------------

\* word i of a message buffer, with the C index (byte offset 4 * i)
Wd(d, i) == d[i + 1]

\* the buffer with words written from C index i on
PutWords(d, i, ws) ==
    [k \in 1..Len(d) |-> IF k > i /\ k <= i + Len(ws) THEN ws[k - i] ELSE d[k]]

\* the first index of the object table that holds oid, or 0
RECURSIVE FindOidFrom(_, _, _)
FindOidFrom(tbl, oid, i) ==
    IF i > Len(tbl) THEN 0
    ELSE IF tbl[i] = oid THEN i
    ELSE FindOidFrom(tbl, oid, i + 1)

\* a lookup that would take the last matching entry
FindOidLast(tbl, oid) ==
    IF \E i \in 1..Len(tbl) : tbl[i] = oid
    THEN CHOOSE i \in 1..Len(tbl) :
            tbl[i] = oid /\ \A j \in (i + 1)..Len(tbl) : tbl[j] # oid
    ELSE 0

FindOid(tbl, oid) == FindOidFrom(tbl, oid, 1)

\* a framing check that would leave out the offset of the DataOffset field
ValidWithoutFieldOffset(m, len) ==
    /\ m.MessageLength = ToU32(len)
    /\ m.MessageType = REMOTE_NDIS_PACKET_MSG
    /\ m.MessageLength = Add32(m.DataLength, m.DataOffset)

\* a framing check that would leave out the message type
ValidWithoutType(m, len) ==
    /\ m.MessageLength = ToU32(len)
    /\ m.MessageLength = Add32(Add32(m.DataLength, m.DataOffset),
                               ToU32(OffsetofDataOffset))

\* RNDIS_VALID_PACKET_MSG(PMSG, MSG_LENGTH)
RNDIS_VALID_PACKET_MSG(m, len) ==
    /\ m.MessageLength = ToU32(len)
    /\ m.MessageType = REMOTE_NDIS_PACKET_MSG
    /\ m.MessageLength = Add32(Add32(m.DataLength, m.DataOffset),
                               ToU32(OffsetofDataOffset))

\* USBD_RNDIS_ResponseReady
ResponseReady ==
    Call("USBD_LL_Transmit", <<"RNDIS_CMD_EP", "RNDIS_ResponseAvailable",
                               RNDIS_CMD_PACKET_SIZE>>)

\* Handlers ---------------------------------------------------------------

\* USBD_RNDIS_Init: TxMsg, RxMsg, MsgLength and data are not assigned
RndisHandleAfterInit(junk) ==
    [data            |-> [i \in 1..DataWords |-> junk],
     TxMsg           |-> "uninit",
     RxMsg           |-> "uninit",
     TxLength        |-> 0,
     MsgLength       |-> junk[2] % 16,
     MaxTransferSize |-> U16(Val32(Wd(RNDIS_InitCmplt, 9)))]

USBD_RNDIS_Init ==
    /\ RndisOnly
    /\ hrndis = NULL
    /\ \E ok \in BOOLEAN, junk \in RndisJunkWords :
         /\ hrndis' = IF ok THEN RndisHandleAfterInit(junk) ELSE NULL
         /\ Observe("RNDIS_Init", <<>>, USBD_OK,
                    <<Call("USBD_LL_OpenEP", "RNDIS_IN_EP"),
                      Call("USBD_LL_OpenEP", "RNDIS_OUT_EP"),
                      Call("USBD_LL_OpenEP", "RNDIS_CMD_EP"),
                      Call("USBD_malloc", ok)>>)
    /\ rndisInXfer' = <<>>
    /\ rndisOutArm' = <<>>
    /\ rndisEp0' = "idle"
    /\ rndisNotif' = FALSE
    /\ UNCHANGED itfOids

USBD_RNDIS_DeInit ==
    /\ RndisOnly
    /\ hrndis' = NULL
    /\ rndisInXfer' = <<>>
    /\ rndisOutArm' = <<>>
    /\ rndisEp0' = "idle"
    /\ rndisNotif' = FALSE
    /\ Observe("RNDIS_DeInit", <<>>, USBD_OK,
               <<Call("USBD_LL_CloseEP", "RNDIS_IN_EP"),
                 Call("USBD_LL_CloseEP", "RNDIS_OUT_EP"),
                 Call("USBD_LL_CloseEP", "RNDIS_CMD_EP")>>
               \o DeInitCalls(hrndis))
    /\ UNCHANGED itfOids

\* a class request on the control endpoint: GET_ENCAPSULATED_RESPONSE (get) or
\* SEND_ENCAPSULATED_COMMAND, with wLength
USBD_RNDIS_Setup ==
    /\ RndisOnly
    /\ \E get \in BOOLEAN, wLength \in HostWLengths \cup {0} :
         /\ IF wLength # 0 /\ hrndis = NULL
            THEN /\ Observe("RNDIS_Setup", <<get, wLength>>, FAULT, <<>>)
                 /\ UNCHANGED <<hrndis, rndisEp0>>
            ELSE IF wLength # 0
            THEN IF get
                 THEN /\ Observe("RNDIS_Setup", <<get, wLength>>, USBD_OK,
                                 <<Call("USBD_CtlSendData",
                                        <<hrndis.data, Wd(hrndis.data, 1)>>)>>)
                      /\ rndisEp0' = "tx"
                      /\ hrndis' = hrndis
                 ELSE /\ hrndis' = [hrndis EXCEPT !.MsgLength = wLength]
                      /\ rndisEp0' = "rx"
                      /\ Observe("RNDIS_Setup", <<get, wLength>>, USBD_OK,
                                 <<Call("USBD_CtlPrepareRx", <<"data", wLength>>)>>)
            ELSE /\ Observe("RNDIS_Setup", <<get, wLength>>, USBD_OK, <<>>)
                 /\ rndisEp0' = "idle"
                 /\ hrndis' = hrndis
    /\ UNCHANGED <<itfOids, rndisInXfer, rndisOutArm, rndisNotif>>

\* the data stage of GET_ENCAPSULATED_RESPONSE has been sent; the class table
\* has no EP0_TxSent entry
RNDIS_EP0_TxSent ==
    /\ RndisOnly
    /\ rndisEp0 = "tx"
    /\ rndisEp0' = "idle"
    /\ Observe("RNDIS_EP0_TxSent", <<>>, USBD_OK, <<>>)
    /\ UNCHANGED <<hrndis, itfOids, rndisInXfer, rndisOutArm, rndisNotif>>

\* a dispatcher that would not wait for the whole message
MsgArrivedAlways(h) == TRUE

\* the gate of USBD_RNDIS_EP0_RxReady: the whole message has arrived
MsgArrived(h) == Wd(h.data, 1) = ToU32(h.MsgLength)

\* the response after the user Init hook, which may set MaxTransferSize
\* (hook = 0: it leaves the response alone)
AfterInitHook(d, hook) ==
    IF hook # 0 THEN PutWords(d, 9, <<ToU32(hook)>>) ELSE d

\* an initialize completion that would not look at the registered capacity
InitializeDataNoRaise(h, hook) ==
    PutWords(AfterInitHook(PutWords(h.data, 0, RNDIS_InitCmplt), hook),
             2, <<Wd(h.data, 2)>>)

\* REMOTE_NDIS_INITIALIZE_MSG
InitializeData(h, hook) ==
    LET reqId == Wd(h.data, 2)
        d1 == AfterInitHook(PutWords(h.data, 0, RNDIS_InitCmplt), hook)
        d2 == PutWords(d1, 2, <<reqId>>)
    IN  IF Lt32(Wd(d2, 9), ToU32(h.MaxTransferSize))
        THEN PutWords(d2, 9, <<ToU32(h.MaxTransferSize)>>)
        ELSE d2

\* a list length that would count entries instead of bytes
SupportedListEntries(tbl) == ToU32(Len(tbl))

\* itf->ObjectInfoCount * sizeof(uint32_t)
SupportedListLength(tbl) == ToU32(Len(tbl) * 4)

\* REMOTE_NDIS_QUERY_MSG; srv is what the QuerySetServer callback answers
QueryData(h, tbl, srv) ==
    LET oid == Wd(h.data, 3)
        d1  == PutWords(PutWords(h.data, 0, <<REMOTE_NDIS_QUERY_CMPLT>>), 3,
                        <<RNDIS_STATUS_FAILURE, W32(0, 0),
                          ToU32(SizeofQueryCmplt - OffsetofRequestID)>>)
        idx == FindOid(tbl, oid)
        d2  == IF oid = OID_GEN_SUPPORTED_LIST
               THEN PutWords(PutWords(d1, SizeofQueryCmplt \div 4, tbl), 3,
                             <<RNDIS_STATUS_SUCCESS, SupportedListLength(tbl)>>)
               ELSE IF idx > 0
               THEN PutWords(IF srv.len > 0
                             THEN PutWords(d1, SizeofQueryCmplt \div 4, <<ServerWord>>)
                             ELSE d1,
                             3, <<srv.status, ToU32(srv.len)>>)
               ELSE d1
    IN  PutWords(d2, 1, <<Add32(ToU32(SizeofQueryCmplt), Wd(d2, 4))>>)

\* a call of ObjectInfo[idx].QuerySetServer: the table entry, the offset of
\* the buffer in hrndis->data and the length on entry, then what the callback
\* answered: its status and the length on return
ServerCall(idx, buf, len, status, out) ==
    Call("QuerySetServer", <<idx, buf, len, status, out>>)

QueryCalls(h, tbl, srv) ==
    LET oid == Wd(h.data, 3)
        idx == FindOid(tbl, oid)
    IN  IF oid # OID_GEN_SUPPORTED_LIST /\ idx > 0
        THEN <<ServerCall(idx, ToU32(SizeofQueryCmplt), W32(0, 0),
                          srv.status, ToU32(srv.len))>>
        ELSE <<>>

\* REMOTE_NDIS_SET_MSG
SetServed(h, tbl) ==
    Wd(h.data, 6) = W32(0, 0) /\ FindOid(tbl, Wd(h.data, 3)) > 0

SetData(h, tbl, srv) ==
    LET status == IF SetServed(h, tbl) THEN srv.status ELSE RNDIS_STATUS_FAILURE
    IN  PutWords(PutWords(h.data, 0, <<REMOTE_NDIS_SET_CMPLT, ToU32(SizeofSetCmplt)>>),
                 3, <<status>>)

SetCalls(h, tbl, srv) ==
    IF SetServed(h, tbl)
    THEN <<ServerCall(FindOid(tbl, Wd(h.data, 3)),
                      Add32(ToU32(OffsetofRequestID), Wd(h.data, 5)),
                      Wd(h.data, 4), srv.status, Wd(h.data, 4))>>
    ELSE <<>>

\* REMOTE_NDIS_RESET_MSG
ResetData(h) ==
    PutWords(h.data, 0, <<REMOTE_NDIS_RESET_CMPLT, ToU32(SizeofResetCmplt),
                          RNDIS_STATUS_SUCCESS, W32(0, 1)>>)

\* a keep-alive completion that would report failure
KeepAliveDataFailure(h) ==
    PutWords(PutWords(h.data, 0, <<REMOTE_NDIS_KEEPALIVE_CMPLT,
                                   ToU32(SizeofKeepAliveCmplt)>>),
             3, <<RNDIS_STATUS_FAILURE>>)

\* REMOTE_NDIS_KEEPALIVE_MSG
KeepAliveData(h) ==
    PutWords(PutWords(h.data, 0, <<REMOTE_NDIS_KEEPALIVE_CMPLT,
                                   ToU32(SizeofKeepAliveCmplt)>>),
             3, <<RNDIS_STATUS_SUCCESS>>)

\* a reset that would leave the transmit tracking as it was
ResetHandleTxKept(h) == [h EXCEPT !.data = ResetData(h)]

\* the handle after REMOTE_NDIS_RESET_MSG: the completion, and TxLength = 0
ResetHandle(h) == [h EXCEPT !.data = ResetData(h), !.TxLength = 0]

\* the message types the dispatcher answers
Answered ==
    {REMOTE_NDIS_INITIALIZE_MSG, REMOTE_NDIS_QUERY_MSG, REMOTE_NDIS_SET_MSG,
     REMOTE_NDIS_RESET_MSG, REMOTE_NDIS_KEEPALIVE_MSG}

\* the handle after USBD_RNDIS_EP0_RxReady (h holds the message in data)
RxReadyHandle(h, tbl, srv) ==
    LET type == Wd(h.data, 0)
    IN  IF ~MsgArrived(h) THEN h
        ELSE IF type = REMOTE_NDIS_INITIALIZE_MSG
        THEN [h EXCEPT !.data = InitializeData(h, srv.mts)]
        ELSE IF type = REMOTE_NDIS_QUERY_MSG
        THEN [h EXCEPT !.data = QueryData(h, tbl, srv)]
        ELSE IF type = REMOTE_NDIS_SET_MSG
        THEN [h EXCEPT !.data = SetData(h, tbl, srv)]
        ELSE IF type = REMOTE_NDIS_RESET_MSG
        THEN ResetHandle(h)
        ELSE IF type = REMOTE_NDIS_KEEPALIVE_MSG
        THEN [h EXCEPT !.data = KeepAliveData(h)]
        ELSE h

\* the external calls of USBD_RNDIS_EP0_RxReady
RxReadyCalls(h, tbl, srv) ==
    LET type == Wd(h.data, 0)
    IN  IF ~MsgArrived(h) \/ type \notin Answered THEN <<>>
        ELSE (IF type = REMOTE_NDIS_INITIALIZE_MSG THEN <<Call("Init", <<>>)>>
              ELSE IF type = REMOTE_NDIS_QUERY_MSG THEN QueryCalls(h, tbl, srv)
              ELSE IF type = REMOTE_NDIS_SET_MSG THEN SetCalls(h, tbl, srv)
              ELSE IF type = REMOTE_NDIS_RESET_MSG
              THEN <<Call("DeInit", <<>>),
                     Call("USBD_LL_FlushEP", "RNDIS_IN_EP"),
                     Call("USBD_LL_FlushEP", "RNDIS_OUT_EP"),
                     Call("Init", <<>>)>>
              ELSE <<>>)
             \o <<ResponseReady>>

\* USBD_RNDIS_EP0_RxReady when the host sends one of msgs and the user Init
\* hook writes one of hooks
RxReady(msgs, hooks) ==
    /\ RndisOnly
    /\ rndisEp0 = "rx"
    /\ hrndis # NULL
    /\ \E m \in msgs,
          srv \in [status : ServerStatus, len : ServerLens, mts : hooks] :
         /\ 4 * Len(m) = hrndis.MsgLength
         /\ LET h0 == [hrndis EXCEPT !.data = PutWords(@, 0, m)]
                cs == RxReadyCalls(h0, itfOids, srv)
                asked == \E i \in 1..Len(cs) : cs[i].fn = "QuerySetServer"
                flush == \E i \in 1..Len(cs) : cs[i].fn = "USBD_LL_FlushEP"
                query == Wd(m, 0) = REMOTE_NDIS_QUERY_MSG
            IN  /\ (~asked => srv.status = RNDIS_STATUS_SUCCESS /\ srv.len = 0)
                /\ (Wd(m, 0) # REMOTE_NDIS_INITIALIZE_MSG => srv.mts = 0)
                /\ (asked /\ ~query => srv.len = 0)
                /\ hrndis' = RxReadyHandle(h0, itfOids, srv)
                /\ rndisInXfer' = IF flush THEN <<>> ELSE rndisInXfer
                /\ rndisOutArm' = IF flush THEN <<>> ELSE rndisOutArm
                /\ rndisNotif' = (rndisNotif \/ cs # <<>>)
                /\ Observe("RNDIS_EP0_RxReady", m, USBD_OK, cs)
    /\ rndisEp0' = "idle"
    /\ UNCHANGED itfOids

\* the data stage of SEND_ENCAPSULATED_COMMAND has arrived in hrndis->data
USBD_RNDIS_EP0_RxReady == RxReady(HostMsgs, {0})

\* the same, with a host that sends INITIALIZE only and an Init hook that may
\* write the response
HostInitMsgs == {m \in HostMsgs : Wd(m, 0) = REMOTE_NDIS_INITIALIZE_MSG}

RNDIS_EP0_RxReady_Initialize == RxReady(HostInitMsgs, InitHookSizes)

\* the same, with a host that queries and sets objects: queries with and
\* without input data, for a registered and an unregistered object; sets of
\* four bytes with the Reserved field zero or not, and a set without input data
HostOidMsgs ==
    {<<REMOTE_NDIS_QUERY_MSG, ToU32(28), id, oid, len, W32(0, 0), W32(0, 0)>> :
        id \in ReqIds, oid \in {OID_A, OID_C}, len \in {W32(0, 0), W32(0, 4)}}
    \cup {<<REMOTE_NDIS_SET_MSG, ToU32(32), W32(65535, 65534), oid, W32(0, 4),
            W32(0, 20), rsv, W32(0, 9)>> :
              oid \in {OID_B, OID_C}, rsv \in {W32(0, 0), W32(0, 1)}}
    \cup {<<REMOTE_NDIS_SET_MSG, ToU32(28), W32(0, 1), OID_B, W32(0, 0), W32(0, 0),
            W32(0, 0)>>}

RNDIS_EP0_RxReady_Oid == RxReady(HostOidMsgs, {0})

\* the same, with a host that resets the device and keeps it alive
HostResetMsgs ==
    {m \in HostMsgs : Wd(m, 0) \in {REMOTE_NDIS_RESET_MSG, REMOTE_NDIS_KEEPALIVE_MSG}}

RNDIS_EP0_RxReady_Reset == RxReady(HostResetMsgs, {0})

USBD_RNDIS_DataIn ==
    /\ RndisOnly
    /\ \E epnum \in {"RNDIS_IN_EP", "RNDIS_CMD_EP"} :
      /\ IF epnum = "RNDIS_IN_EP"
         THEN /\ rndisInXfer # <<>>
              /\ rndisInXfer' = Tail(rndisInXfer)
              /\ hrndis' = IF hrndis # NULL THEN [hrndis EXCEPT !.TxLength = 0]
                           ELSE hrndis
              /\ UNCHANGED rndisNotif
         ELSE /\ rndisNotif
              /\ rndisNotif' = FALSE
              /\ UNCHANGED <<hrndis, rndisInXfer>>
      /\ Observe("RNDIS_DataIn", epnum, USBD_OK, <<>>)
      /\ UNCHANGED <<itfOids, rndisOutArm, rndisEp0>>

\* transfers the bulk IN endpoint takes before the low-level driver refuses more
MaxInFlight == 2

\* the test "free to transmit" of USBD_RNDIS_TransmitMessage
RndisTxFree(h) == h.TxLength = 0

\* hrndis->TxLength = msg->MessageLength: a uint32_t stored in a uint16_t
TxLengthOf(MessageLength) == MessageLength[2]

USBD_RNDIS_TransmitMessage ==
    /\ RndisOnly
    /\ \E msg \in Buffers, MessageLength \in TxMsgLengths, ll \in LLStatus :
      /\ IF hrndis = NULL
         THEN /\ Observe("RNDIS_TransmitMessage", <<msg, MessageLength>>, USBD_FAIL, <<>>)
              /\ UNCHANGED <<hrndis, rndisInXfer>>
         ELSE IF RndisTxFree(hrndis)
         THEN /\ hrndis' = [hrndis EXCEPT !.TxMsg = msg,
                                          !.TxLength = TxLengthOf(MessageLength)]
              /\ (ll = USBD_OK => Len(rndisInXfer) < MaxInFlight)
              /\ rndisInXfer' = IF ll = USBD_OK
                                THEN Append(rndisInXfer, MessageLength)
                                ELSE rndisInXfer
              /\ Observe("RNDIS_TransmitMessage", <<msg, MessageLength>>, ll,
                         <<Call("USBD_LL_Transmit",
                                <<"RNDIS_IN_EP", msg, MessageLength>>)>>)
         ELSE /\ Observe("RNDIS_TransmitMessage", <<msg, MessageLength>>, USBD_BUSY, <<>>)
              /\ UNCHANGED <<hrndis, rndisInXfer>>
      /\ UNCHANGED <<itfOids, rndisOutArm, rndisEp0, rndisNotif>>

USBD_RNDIS_SetReceiveBuffer ==
    /\ RndisOnly
    /\ \E buffer \in Buffers, size \in RxSizes, ll \in LLStatus :
      /\ IF hrndis = NULL
         THEN /\ Observe("RNDIS_SetReceiveBuffer", <<buffer, size>>, USBD_FAIL, <<>>)
              /\ UNCHANGED <<hrndis, rndisOutArm>>
         ELSE /\ hrndis' = [hrndis EXCEPT !.RxMsg = buffer,
                                          !.MaxTransferSize =
                                              IF @ < size THEN size ELSE @]
              /\ rndisOutArm' = IF ll = USBD_OK
                                THEN <<[buf |-> buffer, size |-> size]>>
                                ELSE rndisOutArm
              /\ Observe("RNDIS_SetReceiveBuffer", <<buffer, size>>, ll,
                         <<Call("USBD_LL_PrepareReceive",
                                <<"RNDIS_OUT_EP", buffer, size>>)>>)
      /\ UNCHANGED <<itfOids, rndisInXfer, rndisEp0, rndisNotif>>

\* a packet message whose DataOffset would count from the start of the message
CreatePacketMsgFromStart(n) ==
    [MessageType   |-> REMOTE_NDIS_PACKET_MSG,
     MessageLength |-> Add32(ToU32(SizeofPacketMsg), n),
     DataOffset    |-> ToU32(SizeofPacketMsg),
     DataLength    |-> n]

\* RNDIS_CREATE_PACKET_MSG(PMSG, DATA_LENGTH): the fields the framing check
\* reads (the out-of-band, per-packet-info and reserved fields are set to 0)
RNDIS_CREATE_PACKET_MSG(n) ==
    [MessageType   |-> REMOTE_NDIS_PACKET_MSG,
     MessageLength |-> Add32(ToU32(SizeofPacketMsg), n),
     DataOffset    |-> ToU32(SizeofPacketMsg - OffsetofDataOffset),
     DataLength    |-> n]

\* payload lengths a sender passes to RNDIS_CREATE_PACKET_MSG, and the byte
\* counts the receiving endpoint reports for its messages
PayloadLengths == {W32(0, 0), W32(0, 55), W32(0, 56), W32(65535, 65535)}
CreatedLengths == {43, 44, 99, 100}

\* the message m as a frame of len received bytes
ReceivedAs(m, len) ==
    [MessageType   |-> m.MessageType,
     MessageLength |-> m.MessageLength,
     DataOffset    |-> m.DataOffset,
     DataLength    |-> m.DataLength,
     rxLength      |-> len]

CreatedFrames ==
    {ReceivedAs(RNDIS_CREATE_PACKET_MSG(n), len) :
        n \in PayloadLengths, len \in CreatedLengths}

\* completion of the armed bulk OUT reception: a frame f of frames has
\* arrived in RxMsg
DataOut(frames) ==
    /\ RndisOnly
    /\ rndisOutArm # <<>>
    /\ \E f \in frames :
         /\ f.rxLength <= rndisOutArm[1].size
         /\ Observe("RNDIS_DataOut", f, USBD_OK,
                    IF hrndis # NULL /\ RNDIS_VALID_PACKET_MSG(f, f.rxLength)
                    THEN <<Call("PacketReceived",
                                <<Add32(ToU32(OffsetofDataOffset), f.DataOffset),
                                  f.DataLength>>)>>
                    ELSE <<>>)
    /\ rndisOutArm' = <<>>
    /\ UNCHANGED <<hrndis, itfOids, rndisInXfer, rndisEp0, rndisNotif>>

USBD_RNDIS_DataOut == DataOut(RxFrames)

\* the same, when the peer built its messages with RNDIS_CREATE_PACKET_MSG
RNDIS_DataOut_Created == DataOut(CreatedFrames)

\* the indicate-status message USBD_RNDIS_SendStatus assembles
SendStatusData(h, status) ==
    PutWords(h.data, 0, <<REMOTE_NDIS_INDICATE_STATUS_MSG, ToU32(SizeofIndStatusMsg),
                          status, W32(0, 0), W32(0, 0)>>)

USBD_RNDIS_SendStatus ==
    /\ RndisOnly
    /\ \E status \in {RNDIS_STATUS_SUCCESS, RNDIS_STATUS_FAILURE} :
      /\ IF hrndis # NULL /\ rndisEp0 = "idle"
         THEN /\ hrndis' = [hrndis EXCEPT !.data = SendStatusData(hrndis, status)]
              /\ rndisNotif' = TRUE
              /\ Observe("RNDIS_SendStatus", status, USBD_FAIL, <<ResponseReady>>)
         ELSE /\ Observe("RNDIS_SendStatus", status, USBD_FAIL, <<>>)
              /\ UNCHANGED <<hrndis, rndisNotif>>
      /\ UNCHANGED <<itfOids, rndisInXfer, rndisOutArm, rndisEp0>>

\* the control endpoint and the notification endpoint
NextRNDIS ==
    \/ USBD_RNDIS_Init
    \/ USBD_RNDIS_DeInit
    \/ USBD_RNDIS_Setup
    \/ RNDIS_EP0_TxSent
    \/ USBD_RNDIS_EP0_RxReady
    \/ USBD_RNDIS_DataIn
    \/ USBD_RNDIS_SendStatus

\* initialization by the host and the registration of receive buffers
NextRNDISInit ==
    \/ USBD_RNDIS_Init
    \/ USBD_RNDIS_DeInit
    \/ USBD_RNDIS_Setup
    \/ RNDIS_EP0_RxReady_Initialize
    \/ USBD_RNDIS_SetReceiveBuffer

\* queries and sets of objects by the host
NextRNDISOid ==
    \/ USBD_RNDIS_Init
    \/ USBD_RNDIS_DeInit
    \/ USBD_RNDIS_Setup
    \/ RNDIS_EP0_RxReady_Oid

\* a reset by the host while the application transmits
NextRNDISReset ==
    \/ USBD_RNDIS_Init
    \/ USBD_RNDIS_DeInit
    \/ USBD_RNDIS_Setup
    \/ RNDIS_EP0_RxReady_Reset
    \/ USBD_RNDIS_TransmitMessage
    \/ USBD_RNDIS_DataIn

\* reception of the messages RNDIS_CREATE_PACKET_MSG builds
NextRNDISFrame ==
    \/ USBD_RNDIS_Init
    \/ USBD_RNDIS_DeInit
    \/ USBD_RNDIS_SetReceiveBuffer
    \/ RNDIS_DataOut_Created

\* the bulk endpoints
NextRNDISData ==
    \/ USBD_RNDIS_Init
    \/ USBD_RNDIS_DeInit
    \/ USBD_RNDIS_TransmitMessage
    \/ USBD_RNDIS_DataIn
    \/ USBD_RNDIS_SetReceiveBuffer
    \/ USBD_RNDIS_DataOut

-----------------------------------------------------------------------------
(* Specifications *)

InitAny ==
    /\ hcdc = NULL
    /\ cdcItf \in CdcInterfaces
    /\ cdcInXfer = <<>>
    /\ cdcOutArm = <<>>
    /\ cdcEp0 = "idle"
    /\ hdfu = NULL
    /\ dfuEp0 = <<"idle", 0>>
    /\ dfuHalt = FALSE
    /\ rt = 0
    /\ hrndis = NULL
    /\ itfOids \in OidTables
    /\ rndisInXfer = <<>>
    /\ rndisOutArm = <<>>
    /\ rndisEp0 = "idle"
    /\ rndisNotif = FALSE
    /\ lastOp = "none"
    /\ arg = <<>>
    /\ ret = USBD_OK
    /\ calls = <<>>
    /\ tick = FALSE

\* the application registers a CDC interface with every callback
Init == InitAny /\ cdcItf = CdcItfAll

\* the application registers the largest table
InitOne == Init /\ Len(itfOids) = MaxOids

\* the application registers either CDC interface
InitCDC == InitAny /\ Len(itfOids) = MaxOids

SpecCDC       == InitCDC /\ [][NextCDC]_vars
SpecCDCCtl    == InitCDC /\ [][NextCDCCtl]_vars
SpecDFU       == InitOne /\ [][NextDFU]_vars
SpecRNDIS     == Init /\ [][NextRNDIS]_vars
SpecRNDISData == InitOne /\ [][NextRNDISData]_vars
SpecRNDISInit == InitOne /\ [][NextRNDISInit]_vars
SpecRNDISOid  == InitOne /\ [][NextRNDISOid]_vars
SpecRNDISReset == InitOne /\ [][NextRNDISReset]_vars
SpecRNDISFrame == InitOne /\ [][NextRNDISFrame]_vars

\* activation and deactivation of the three classes (SetConfiguration, reset)
NextLife ==
    \/ USBD_CDC_Init
    \/ USBD_CDC_DeInit
    \/ USBD_DFU_Init
    \/ USBD_DFU_DeInit
    \/ USBD_RNDIS_Init
    \/ USBD_RNDIS_DeInit

SpecLife == Init /\ [][NextLife]_vars

-----------------------------------------------------------------------------
(* Properties of the CDC class driver *)

\* C1: while a bulk IN transfer that USBD_CDC_Transmit started has not been
\* completed by DataIn, a further USBD_CDC_Transmit on the initialized instance
\* returns USBD_BUSY, calls no low-level transmit, and leaves TxBuffer and
\* TxLength at the buffer and length of the transfer in flight; at most one
\* bulk IN transfer is outstanding after every step.
C1_SecondTransmitBusy ==
    [][/\ Len(cdcInXfer') <= 1
       /\ (lastOp' = "CDC_Transmit" /\ hcdc # NULL /\ cdcInXfer # <<>>)
            => /\ ret' = USBD_BUSY
               /\ calls' = <<>>
               /\ cdcInXfer' = cdcInXfer
               /\ hcdc'.TxBuffer = cdcInXfer[1].buf
               /\ hcdc'.TxLength = cdcInXfer[1].len]_vars

\* a Transmit of another buffer and length was refused while a transfer is in flight
C1_Witness ==
    /\ lastOp = "CDC_Transmit"
    /\ ret = USBD_BUSY
    /\ hcdc # NULL
    /\ cdcInXfer # <<>>
    /\ arg # <<cdcInXfer[1].buf, cdcInXfer[1].len>>
    /\ hcdc.TxBuffer = cdcInXfer[1].buf
    /\ hcdc.TxLength = cdcInXfer[1].len

\* C24: each DataIn on an initialized instance sets TxState back to idle
\* and invokes the user Transmitted callback, if registered, exactly once with
\* the buffer pointer and length recorded by the accepted Transmit, after
\* which a new Transmit is accepted.
C24_TransmitCompletion ==
    [][/\ (lastOp' = "CDC_DataIn" /\ hcdc # NULL)
            => /\ hcdc'.TxState = USBD_OK
               /\ calls' = IF cdcItf.Transmitted
                           THEN <<Call("Transmitted",
                                       <<cdcInXfer[1].buf, cdcInXfer[1].len>>)>>
                           ELSE <<>>
       /\ (lastOp = "CDC_DataIn" /\ hcdc # NULL /\ lastOp' = "CDC_Transmit")
            => /\ calls' = <<Call("USBD_LL_Transmit",
                                  <<"CDC_IN_EP", arg'[1], arg'[2]>>)>>
               /\ hcdc'.TxBuffer = arg'[1]
               /\ hcdc'.TxLength = arg'[2]]_vars

\* the completion of a transfer of 64 bytes from the second buffer was reported
C24_Witness ==
    /\ lastOp = "CDC_DataIn"
    /\ hcdc # NULL
    /\ hcdc.TxState = USBD_OK
    /\ calls = <<Call("Transmitted", <<"buf2", 64>>)>>

\* C25: USBD_CDC_Receive on an initialized instance unconditionally records
\* the buffer and arms a bulk OUT reception regardless of any earlier arm;
\* DataOut invokes the Received callback with the most recently registered
\* buffer and the actual received byte count and does not re-arm reception, so
\* no further OUT data is accepted until the caller calls Receive again.
C25_Receive ==
    [][/\ (lastOp' = "CDC_Receive" /\ hcdc # NULL)
            => /\ hcdc'.RxBuffer = arg'[1]
               /\ calls' = <<Call("USBD_LL_PrepareReceive",
                                  <<"CDC_OUT_EP", arg'[1], arg'[2]>>)>>
               /\ ret' = USBD_OK
                    => cdcOutArm' = <<[buf |-> arg'[1], len |-> arg'[2]]>>
       /\ (hcdc # NULL /\ lastOp' \notin {"CDC_Receive", "CDC_Init", "CDC_DeInit"})
            => hcdc'.RxBuffer = hcdc.RxBuffer
       /\ (lastOp' = "CDC_DataOut" /\ hcdc # NULL)
            => /\ calls' = IF cdcItf.Received
                           THEN <<Call("Received", <<hcdc.RxBuffer, arg'>>)>>
                           ELSE <<>>
               /\ cdcOutArm' = <<>>
       /\ lastOp = "CDC_DataOut" => lastOp' # "CDC_DataOut"]_vars

\* a full packet arrived in the second buffer after the reception was armed
\* again, and nothing is armed any more
C25_Witness ==
    /\ lastOp = "CDC_DataOut"
    /\ hcdc # NULL
    /\ calls = <<Call("Received", <<"buf2", 64>>)>>
    /\ cdcOutArm = <<>>

\* C26: with a Control callback registered, a class request with a data stage
\* in the host-to-device direction does not invoke Control in Setup: Setup
\* records opcode and length and arms reception into the staging buffer, and
\* Control is invoked with that opcode, buffer and length in the later
\* EP0_RxReady.  A device-to-host class request with a data stage invokes
\* Control immediately in Setup and sends wLength bytes of the staging buffer.
\* A class request with wLength = 0 invokes Control immediately with length 0.
C26_TwoPhase ==
    [][(cdcItf.Control /\ hcdc # NULL)
         => /\ (lastOp' = "CDC_Setup" /\ arg'[2] # 0 /\ ~arg'[3])
                 => /\ calls' = <<Call("USBD_CtlPrepareRx", <<"data", arg'[2]>>)>>
                    /\ hcdc'.CmdOpCode = arg'[1]
                    /\ hcdc'.CmdLength = arg'[2]
                    /\ cdcEp0' = "rx"
            /\ lastOp' = "CDC_EP0_RxReady"
                 => calls' = <<Call("Control",
                                    <<hcdc.CmdOpCode, "data", hcdc.CmdLength>>)>>
            /\ (lastOp' = "CDC_Setup" /\ arg'[2] # 0 /\ arg'[3])
                 => calls' = <<Call("Control", <<arg'[1], "data", arg'[2]>>),
                               Call("USBD_CtlSendData", <<"data", arg'[2]>>)>>
            /\ (lastOp' = "CDC_Setup" /\ arg'[2] = 0)
                 => calls' = <<Call("Control", <<arg'[1], "req", 0>>)>>]_vars


\* C32: once the completion of a transfer has been signaled (USBD_CDC_DataIn,
\* USBD_CDC_DataOut, USBD_RNDIS_DataIn on the bulk IN endpoint), the class handle
\* holds no pointer to a caller's buffer in TxBuffer, RxBuffer or TxMsg.
C32_BorrowedBuffers ==
    [][/\ (lastOp' = "CDC_DataIn" /\ hcdc # NULL)
            => hcdc'.TxBuffer \notin Buffers
       /\ (lastOp' = "CDC_DataOut" /\ hcdc # NULL)
            => hcdc'.RxBuffer \notin Buffers
       /\ (lastOp' = "RNDIS_DataIn" /\ arg' = "RNDIS_IN_EP" /\ hrndis # NULL)
            => hrndis'.TxMsg \notin Buffers]_vars


\* C37: in every order of Init, Setup and EP0_RxReady, USBD_CDC_EP0_RxReady
\* invokes Control only for a host-to-device class request with a data stage
\* that Setup staged since Init and since the previous EP0_RxReady, and then
\* once, with that request's opcode and length: the EP0_RxReady that follows
\* the staging Setup invokes Control(opcode, data, length) and nothing else,
\* and an EP0_RxReady that directly follows Init or another EP0_RxReady
\* invokes nothing.
C37_StagedOnce ==
    [][lastOp' = "CDC_EP0_RxReady"
         => /\ lastOp \in {"CDC_Init", "CDC_EP0_RxReady"} => calls' = <<>>
            /\ (/\ lastOp = "CDC_Setup" /\ ret = USBD_OK
                /\ arg[2] # 0 /\ ~arg[3]
                /\ cdcItf.Control)
                 => calls' = <<Call("Control", <<arg[1], "data", arg[2]>>)>>
            /\ calls' # <<>>
                 => calls' = <<Call("Control",
                                    <<hcdc.CmdOpCode, "data", hcdc.CmdLength>>)>>]_vars


\* C39: whenever USBD_CDC_Transmit returns a status other than USBD_OK (busy by
\* its own state flag, or busy or failed by the low-level transmit), TxState,
\* TxBuffer and TxLength are what they were before the call, and the instance
\* is busy only while a transfer is in flight whose DataIn will come.
C39_TransmitFailure ==
    [][(lastOp' = "CDC_Transmit" /\ hcdc # NULL /\ ret' # USBD_OK)
         => /\ hcdc'.TxState = hcdc.TxState
            /\ hcdc'.TxBuffer = hcdc.TxBuffer
            /\ hcdc'.TxLength = hcdc.TxLength
            /\ hcdc'.TxState = USBD_BUSY => cdcInXfer' # <<>>]_vars

-----------------------------------------------------------------------------
(* Properties of the DFU class driver *)

\* C3: ABORT or DETACH received in IDLE, DNLOAD_SYNC, DNLOAD_IDLE,
\* MANIFEST_SYNC or UPLOAD_IDLE leaves dev_state = IDLE, status byte 0 cleared
\* and block number and length zero; ABORT received in DNLOAD_BUSY, MANIFEST,
\* MANIFEST_WAIT_RESET or ERROR changes no field of the handle.
C3_AbortDetach ==
    [][/\ (/\ lastOp' \in {"DFU_Abort", "DFU_Detach"}
           /\ hdfu # NULL
           /\ hdfu.dev_state \in {DFU_STATE_IDLE, DFU_STATE_DNLOAD_SYNC,
                                  DFU_STATE_DNLOAD_IDLE, DFU_STATE_MANIFEST_SYNC,
                                  DFU_STATE_UPLOAD_IDLE})
            => /\ hdfu'.dev_state = DFU_STATE_IDLE
               /\ St(hdfu', 0) = DFU_ERROR_NONE
               /\ hdfu'.wblock_num = 0
               /\ hdfu'.wlength = 0
       /\ (/\ lastOp' = "DFU_Abort"
           /\ hdfu # NULL
           /\ hdfu.dev_state \in {DFU_STATE_DNLOAD_BUSY, DFU_STATE_MANIFEST,
                                  DFU_STATE_MANIFEST_WAIT_RESET, DFU_STATE_ERROR})
            => hdfu' = hdfu]_vars

\* a DETACH has reset the state machine while a manifestation was pending
C3_Witness ==
    /\ lastOp = "DFU_Detach"
    /\ hdfu # NULL
    /\ hdfu.dev_state = DFU_STATE_IDLE
    /\ hdfu.manif_state = DFU_MANIFEST_IN_PROGRESS
    /\ St(hdfu, 0) = DFU_ERROR_NONE
    /\ hdfu.wblock_num = 0
    /\ hdfu.wlength = 0

\* C4: from IDLE, after DNLOAD with nonzero wLength, the arrival of the data
\* stage and GETSTATUS (rt = 3), the state and the state byte of the status
\* record read DNLOAD_BUSY; once the status transfer has completed (rt = 4) the
\* pending length is zero; after the following GETSTATUS (rt = 5) the state is
\* DNLOAD_IDLE.
C4_GetStatusRoundTrip ==
    hdfu # NULL =>
      /\ rt = 3 => /\ hdfu.dev_state = DFU_STATE_DNLOAD_BUSY
                   /\ St(hdfu, 4) = DFU_STATE_DNLOAD_BUSY
      /\ rt = 4 => hdfu.wlength = 0
      /\ rt = 5 => /\ hdfu.dev_state = DFU_STATE_DNLOAD_IDLE
                   /\ St(hdfu, 4) = DFU_STATE_DNLOAD_IDLE

\* the round trip has been completed
C4_Witness ==
    /\ rt = 5
    /\ hdfu # NULL
    /\ hdfu.dev_state = DFU_STATE_DNLOAD_IDLE
    /\ lastOp = "DFU_GetStatus"

\* C5: for a block number b >= 2 and the base address data_ptr, the download
\* completion calls Write once, and an accepted UPLOAD with wLength > 0 calls
\* Read once, with the address ((b - 2) * XFER_SIZE + data_ptr) modulo 2^32
\* and with the wLength recorded for the block.
C5_BlockAddress ==
    [][/\ (/\ lastOp' = "DFU_EP0_TxReady"
           /\ hdfu.dev_state = DFU_STATE_DNLOAD_BUSY
           /\ hdfu.wblock_num >= 2)
            => calls' = <<Call("Write",
                               <<Add32(ToU32((hdfu.wblock_num - 2) * 1024),
                                       hdfu.data_ptr),
                                 "buffer", hdfu.wlength>>)>>
       /\ (/\ lastOp' = "DFU_Upload"
           /\ hdfu # NULL
           /\ hdfu.dev_state \in {DFU_STATE_IDLE, DFU_STATE_UPLOAD_IDLE}
           /\ arg'[1] >= 2
           /\ arg'[2] > 0)
            => /\ hdfu'.wlength = arg'[2]
               /\ calls'[1] = Call("Read",
                                   <<"buffer",
                                     Add32(ToU32((arg'[1] - 2) * 1024),
                                           hdfu.data_ptr),
                                     hdfu'.wlength>>)
               /\ \A i \in 2..Len(calls') : calls'[i].fn # "Read"]_vars

\* a block has been written at an address that wrapped past 2^32
C5_Witness ==
    /\ lastOp = "DFU_EP0_TxReady"
    /\ hdfu # NULL
    /\ hdfu.data_ptr = HighAddress
    /\ \E i \in 1..Len(calls) :
         /\ calls[i].fn = "Write"
         /\ calls[i].args[1] = W32(0, 0)
         /\ calls[i].args[3] = 1

\* C6, with the third vector computed from the formula: with XFER_SIZE = 1024
\* and base address 0x08008000, blocks 2, 3 and 1000 are written and read at
\* 0x08008000, 0x08008400 and 0x08101800 (998 * 1024 = 0xF9800).
C6_TestVectors ==
    [][/\ (/\ lastOp' = "DFU_EP0_TxReady"
           /\ hdfu.dev_state = DFU_STATE_DNLOAD_BUSY
           /\ hdfu.data_ptr = W32(2048, 32768)
           /\ hdfu.wblock_num \in {2, 3, 1000})
            => /\ Len(calls') = 1
               /\ calls'[1].fn = "Write"
               /\ calls'[1].args[1] =
                    (IF hdfu.wblock_num = 2 THEN W32(2048, 32768)
                     ELSE IF hdfu.wblock_num = 3 THEN W32(2048, 33792)
                     ELSE W32(2064, 6144))
       /\ (/\ lastOp' = "DFU_Upload"
           /\ hdfu # NULL
           /\ hdfu.dev_state \in {DFU_STATE_IDLE, DFU_STATE_UPLOAD_IDLE}
           /\ hdfu.data_ptr = W32(2048, 32768)
           /\ arg'[1] \in {2, 3, 1000}
           /\ arg'[2] > 0)
            => /\ calls'[1].fn = "Read"
               /\ calls'[1].args[2] =
                    (IF arg'[1] = 2 THEN W32(2048, 32768)
                     ELSE IF arg'[1] = 3 THEN W32(2048, 33792)
                     ELSE W32(2064, 6144))]_vars

\* block 1000 has been written at 0x08101800
C6_Witness ==
    /\ lastOp = "DFU_EP0_TxReady"
    /\ Len(calls) = 1
    /\ calls[1].fn = "Write"
    /\ calls[1].args[1] = W32(2064, 6144)
    /\ hdfu.data_ptr = StartAddress

\* C6 as stated: with XFER_SIZE = 1024 and base address 0x08008000, blocks 2,
\* 3 and 1000 are written and read at 0x08008000, 0x08008400 and 0x083FD800.
C6_TestVectorsAsStated ==
    [][/\ (/\ lastOp' = "DFU_EP0_TxReady"
           /\ hdfu.dev_state = DFU_STATE_DNLOAD_BUSY
           /\ hdfu.data_ptr = W32(2048, 32768)
           /\ hdfu.wblock_num \in {2, 3, 1000})
            => /\ Len(calls') = 1
               /\ calls'[1].fn = "Write"
               /\ calls'[1].args[1] =
                    (IF hdfu.wblock_num = 2 THEN W32(2048, 32768)
                     ELSE IF hdfu.wblock_num = 3 THEN W32(2048, 33792)
                     ELSE W32(2111, 55296))
       /\ (/\ lastOp' = "DFU_Upload"
           /\ hdfu # NULL
           /\ hdfu.dev_state \in {DFU_STATE_IDLE, DFU_STATE_UPLOAD_IDLE}
           /\ hdfu.data_ptr = W32(2048, 32768)
           /\ arg'[1] \in {2, 3, 1000}
           /\ arg'[2] > 0)
            => /\ calls'[1].fn = "Read"
               /\ calls'[1].args[2] =
                    (IF arg'[1] = 2 THEN W32(2048, 32768)
                     ELSE IF arg'[1] = 3 THEN W32(2048, 33792)
                     ELSE W32(2111, 55296))]_vars

\* C14: DNLOAD is accepted only in IDLE or DNLOAD_IDLE.  With wLength > 0 it
\* records block number and length, moves to DNLOAD_SYNC and arms the control
\* OUT reception of wLength bytes into the buffer; with wLength = 0 it sets the
\* manifestation sub-state to in-progress and moves to MANIFEST_SYNC.  In every
\* other state it signals a control error and changes no field of the handle.
C14_Download ==
    [][(lastOp' = "DFU_Download" /\ hdfu # NULL)
         => IF hdfu.dev_state \in {DFU_STATE_IDLE, DFU_STATE_DNLOAD_IDLE}
            THEN IF arg'[2] > 0
                 THEN /\ hdfu'.wblock_num = arg'[1]
                      /\ hdfu'.wlength = arg'[2]
                      /\ hdfu'.dev_state = DFU_STATE_DNLOAD_SYNC
                      /\ calls' = <<Call("USBD_CtlPrepareRx", <<"buffer", arg'[2]>>)>>
                      /\ dfuEp0' = <<"rx", arg'[2]>>
                 ELSE /\ hdfu'.manif_state = DFU_MANIFEST_IN_PROGRESS
                      /\ hdfu'.dev_state = DFU_STATE_MANIFEST_SYNC
                      /\ calls' = <<>>
            ELSE /\ calls' = <<Call("USBD_CtlError", <<>>)>>
                 /\ hdfu' = hdfu]_vars

\* block 1000 of 5 bytes has been accepted after an earlier block was completed
C14_Witness ==
    /\ lastOp = "DFU_Download"
    /\ arg = <<1000, 5>>
    /\ hdfu # NULL
    /\ hdfu.dev_state = DFU_STATE_DNLOAD_SYNC
    /\ hdfu.wblock_num = 1000
    /\ hdfu.wlength = 5
    /\ dfuEp0 = <<"rx", 5>>
    /\ hdfu.buffer # <<DFU_CMD_ERASE, 255, 255, 255, 255>>

\* C15: when the completion callback USBD_DFU_EP0_TxReady fires in DNLOAD_BUSY,
\* block number and length end at zero and dev_state at DNLOAD_SYNC in every
\* sub-case; block 1 invokes neither Write nor Erase; the block-0 commands
\* SetAddressPointer and Erase (length 5) set data_ptr to the four payload
\* bytes read little-endian, Erase also invoking the Erase callback with that
\* address; an unrecognized block-0 command signals a control error.
C15_PayloadProcessing ==
    [][(/\ lastOp' = "DFU_EP0_TxReady"
        /\ hdfu # NULL
        /\ hdfu.dev_state = DFU_STATE_DNLOAD_BUSY)
         => LET b    == hdfu.buffer
                le   == <<b[5] * 256 + b[4], b[3] * 256 + b[2]>>
                cmd5 == hdfu.wblock_num = 0 /\ hdfu.wlength = 5
                get1 == /\ hdfu.wblock_num = 0 /\ hdfu.wlength = 1
                        /\ b[1] = DFU_CMD_GETCOMMANDS
            IN  /\ hdfu'.wblock_num = 0
                /\ hdfu'.wlength = 0
                /\ hdfu'.dev_state = DFU_STATE_DNLOAD_SYNC
                /\ hdfu.wblock_num = 1
                     => calls' = <<>> /\ hdfu'.data_ptr = hdfu.data_ptr
                /\ (cmd5 /\ b[1] = DFU_CMD_SETADDRESSPOINTER)
                     => hdfu'.data_ptr = le /\ calls' = <<>>
                /\ (cmd5 /\ b[1] = DFU_CMD_ERASE)
                     => hdfu'.data_ptr = le /\ calls' = <<Call("Erase", <<le>>)>>
                /\ (/\ hdfu.wblock_num = 0
                    /\ ~get1
                    /\ ~(cmd5 /\ b[1] \in {DFU_CMD_SETADDRESSPOINTER, DFU_CMD_ERASE}))
                     => calls' = <<Call("USBD_CtlError", <<>>)>>]_vars

\* an Erase command has moved the address pointer back to 0x08008000 and
\* erased there
C15_Witness ==
    /\ lastOp = "DFU_EP0_TxReady"
    /\ hdfu # NULL
    /\ hdfu.dev_state = DFU_STATE_DNLOAD_SYNC
    /\ hdfu.wlength = 0
    /\ hdfu.buffer = <<DFU_CMD_ERASE>> \o StartBytes
    /\ hdfu.data_ptr = StartAddress
    /\ calls = <<Call("Erase", <<StartAddress>>)>>

\* the calls of the medium's GetStatus callback among the calls cs
MediaStatusCalls(cs) == {i \in 1..Len(cs) : cs[i].fn = "GetStatus"}

\* C16: GETSTATUS in DNLOAD_SYNC.  With a nonzero pending length the state
\* becomes DNLOAD_BUSY and the medium's GetStatus callback is invoked exactly
\* once, with operation Erase when the pending block is 0 and the staged
\* command byte is Erase, with operation Program otherwise; with a zero pending
\* length the state becomes DNLOAD_IDLE and the callback is not invoked.
C16_GetStatusDnloadSync ==
    [][(/\ lastOp' = "DFU_GetStatus"
        /\ hdfu # NULL
        /\ hdfu.dev_state = DFU_STATE_DNLOAD_SYNC)
         => IF hdfu.wlength # 0
            THEN /\ hdfu'.dev_state = DFU_STATE_DNLOAD_BUSY
                 /\ MediaStatusCalls(calls') = {1}
                 /\ calls'[1].args[2] =
                      (IF hdfu.wblock_num = 0 /\ hdfu.buffer[1] = DFU_CMD_ERASE
                       THEN DFU_MEDIA_ERASE ELSE DFU_MEDIA_PROGRAM)
            ELSE /\ hdfu'.dev_state = DFU_STATE_DNLOAD_IDLE
                 /\ MediaStatusCalls(calls') = {}]_vars

\* the status of a pending Erase command has been asked of the medium
C16_Witness ==
    /\ lastOp = "DFU_GetStatus"
    /\ hdfu # NULL
    /\ hdfu.dev_state = DFU_STATE_DNLOAD_BUSY
    /\ hdfu.wblock_num = 0
    /\ hdfu.wlength = 5
    /\ hdfu.buffer = <<DFU_CMD_ERASE>> \o StartBytes
    /\ calls[1] = Call("GetStatus", <<hdfu.data_ptr, DFU_MEDIA_ERASE>>)

\* C17: GETSTATUS in MANIFEST_SYNC.  With the manifestation sub-state in
\* progress the state becomes MANIFEST and the reported poll timeout is 1 ms
\* (status bytes 1..3 = 1, 0, 0); with the sub-state complete on a
\* manifestation-tolerant device the state becomes IDLE; otherwise the state is
\* unchanged.
C17_GetStatusManifestSync ==
    [][(/\ lastOp' = "DFU_GetStatus"
        /\ hdfu # NULL
        /\ hdfu.dev_state = DFU_STATE_MANIFEST_SYNC)
         => IF hdfu.manif_state = DFU_MANIFEST_IN_PROGRESS
            THEN /\ hdfu'.dev_state = DFU_STATE_MANIFEST
                 /\ <<St(hdfu', 1), St(hdfu', 2), St(hdfu', 3)>> = <<1, 0, 0>>
            ELSE IF hdfu.manif_state = DFU_MANIFEST_COMPLETE /\ DFU_MANIFEST_TOLERANT
            THEN hdfu'.dev_state = DFU_STATE_IDLE
            ELSE hdfu'.dev_state = hdfu.dev_state]_vars

\* the status record that announces MANIFEST has been sent
C17_Witness ==
    /\ lastOp = "DFU_GetStatus"
    /\ hdfu # NULL
    /\ hdfu.dev_state = DFU_STATE_MANIFEST
    /\ hdfu.manif_state = DFU_MANIFEST_IN_PROGRESS
    /\ calls = <<Call("USBD_CtlSendData",
                      <<<<DFU_ERROR_NONE, 1, 0, 0, DFU_STATE_MANIFEST, 0>>, 6>>)>>

\* C18: GETSTATUS, in every state and whichever branch fired, sends exactly
\* the 6-byte status record over the control endpoint, and byte 4 of the record
\* sent is dev_state after the transition; after every DFU request or EP0
\* callback dev_status[4] equals dev_state.
C18_StatusRecord ==
    [][/\ hdfu' # NULL => St(hdfu', 4) = hdfu'.dev_state
       /\ (lastOp' = "DFU_GetStatus" /\ hdfu # NULL)
            => /\ {i \in 1..Len(calls') : calls'[i].fn = "USBD_CtlSendData"}
                    = {Len(calls')}
               /\ calls'[Len(calls')].args = <<hdfu'.dev_status, 6>>
               /\ Len(hdfu'.dev_status) = 6
               /\ calls'[Len(calls')].args[1][5] = hdfu'.dev_state
       /\ (lastOp' = "DFU_GetState" /\ hdfu # NULL)
            => calls' = <<Call("USBD_CtlSendData", <<St(hdfu', 4), 1>>)>>]_vars

\* a status record with state DNLOAD_IDLE has been sent after a block was
\* written
C18_Witness ==
    /\ lastOp = "DFU_GetStatus"
    /\ hdfu # NULL
    /\ hdfu.dev_state = DFU_STATE_DNLOAD_IDLE
    /\ calls = <<Call("USBD_CtlSendData",
                      <<<<DFU_ERROR_NONE, 0, 0, 0, DFU_STATE_DNLOAD_IDLE, 0>>, 6>>)>>

\* C19: CLEARSTATUS received in ERROR moves to IDLE and clears the error code
\* to none; received in any other state it moves to ERROR and sets the error
\* code to the generic "unknown" error; in both cases poll timeout and string
\* index are zero and block number and length are left unchanged.
C19_ClearStatus ==
    [][(lastOp' = "DFU_ClearStatus" /\ hdfu # NULL)
         => /\ IF hdfu.dev_state = DFU_STATE_ERROR
               THEN /\ hdfu'.dev_state = DFU_STATE_IDLE
                    /\ St(hdfu', 0) = DFU_ERROR_NONE
               ELSE /\ hdfu'.dev_state = DFU_STATE_ERROR
                    /\ St(hdfu', 0) = DFU_ERROR_UNKNOWN
            /\ <<St(hdfu', 1), St(hdfu', 2), St(hdfu', 3)>> = <<0, 0, 0>>
            /\ St(hdfu', 5) = 0
            /\ hdfu'.wblock_num = hdfu.wblock_num
            /\ hdfu'.wlength = hdfu.wlength]_vars

\* the error has been cleared while block 1000 was still pending
C19_Witness ==
    /\ lastOp = "DFU_ClearStatus"
    /\ hdfu # NULL
    /\ hdfu.dev_state = DFU_STATE_IDLE
    /\ hdfu.dev_status = <<DFU_ERROR_NONE, 0, 0, 0, DFU_STATE_IDLE, 0>>
    /\ hdfu.wblock_num = 1000
    /\ hdfu.wlength = 5

\* C20: once dev_state is ERROR, CLEARSTATUS is the only request that takes the
\* state machine out of ERROR: every other class request (DNLOAD, UPLOAD with
\* any wLength, GETSTATUS, GETSTATE, ABORT, DETACH) and every EP0 callback
\* leaves dev_state = ERROR.
C20_ErrorExit ==
    [][(/\ hdfu # NULL
        /\ hdfu.dev_state = DFU_STATE_ERROR
        /\ lastOp' \in {"DFU_Download", "DFU_Upload", "DFU_GetStatus",
                        "DFU_GetState", "DFU_Abort", "DFU_Detach",
                        "DFU_EP0_RxReady", "DFU_EP0_TxReady"})
         => /\ hdfu' # NULL
            /\ hdfu'.dev_state = DFU_STATE_ERROR]_vars

\* C21: UPLOAD with wLength > 0 from IDLE or UPLOAD_IDLE: block 0 sends the
\* 3-byte list of supported vendor commands and the next state is IDLE if
\* more than 3 bytes were requested and UPLOAD_IDLE otherwise; block >= 2
\* moves to UPLOAD_IDLE, invokes Read with the block address into the scratch
\* buffer and sends wLength bytes.  From any other state UPLOAD signals a
\* control error, resets block number and length to zero and leaves dev_state
\* unchanged.
C21_Upload ==
    [][(lastOp' = "DFU_Upload" /\ hdfu # NULL /\ arg'[2] > 0)
         => LET wValue  == arg'[1]
                wLength == arg'[2]
            IN  IF hdfu.dev_state \in {DFU_STATE_IDLE, DFU_STATE_UPLOAD_IDLE}
                THEN /\ wValue = 0
                          => /\ calls' = <<Call("USBD_CtlSendData", <<"buffer", 3>>)>>
                             /\ <<hdfu'.buffer[1], hdfu'.buffer[2], hdfu'.buffer[3]>>
                                  = <<DFU_CMD_GETCOMMANDS, DFU_CMD_SETADDRESSPOINTER,
                                      DFU_CMD_ERASE>>
                             /\ hdfu'.dev_state = IF wLength > 3 THEN DFU_STATE_IDLE
                                                  ELSE DFU_STATE_UPLOAD_IDLE
                     /\ wValue >= 2
                          => /\ hdfu'.dev_state = DFU_STATE_UPLOAD_IDLE
                             /\ calls' =
                                  <<Call("Read",
                                         <<"buffer",
                                           Add32(ToU32((wValue - 2) * USBD_DFU_XFER_SIZE),
                                                 hdfu.data_ptr),
                                           wLength>>),
                                    Call("USBD_CtlSendData", <<"buffer", wLength>>)>>
                ELSE /\ calls' = <<Call("USBD_CtlError", <<>>)>>
                     /\ hdfu'.wblock_num = 0
                     /\ hdfu'.wlength = 0
                     /\ hdfu'.dev_state = hdfu.dev_state]_vars

\* block 1000 has been read from behind a moved address pointer
C21_Witness ==
    /\ lastOp = "DFU_Upload"
    /\ arg = <<1000, 5>>
    /\ hdfu # NULL
    /\ hdfu.dev_state = DFU_STATE_UPLOAD_IDLE
    /\ hdfu.data_ptr = HighAddress
    /\ Len(calls) = 2
    /\ calls[1].fn = "Read"

\* C22: UPLOAD with wLength > 0 and block number 1, from IDLE or UPLOAD_IDLE,
\* stalls the request and forces the state machine into the ERROR state
\* (dev_state and status byte 4 hold the ERROR state code), so that dev_state
\* is always one of the nine enumerated states.
C22_UploadBlockOne ==
    [][/\ (/\ lastOp' = "DFU_Upload"
           /\ hdfu # NULL
           /\ hdfu.dev_state \in {DFU_STATE_IDLE, DFU_STATE_UPLOAD_IDLE}
           /\ arg'[1] = 1
           /\ arg'[2] > 0)
            => /\ calls' = <<Call("USBD_CtlError", <<>>)>>
               /\ hdfu'.dev_state = DFU_STATE_ERROR
               /\ St(hdfu', 4) = DFU_STATE_ERROR
       /\ hdfu' # NULL => hdfu'.dev_state \in DfuStates]_vars

\* the calls by which DFU_Leave tears the device down and resets
LeaveCalls(cs) ==
    {i \in 1..Len(cs) : cs[i].fn \in {"USBD_DeInit", "USBD_SystemReset"}}

\* C23: when the EP0 completion callback fires in MANIFEST, the manifestation
\* sub-state becomes complete; if the device is manifestation-tolerant the
\* state becomes MANIFEST_SYNC and nothing else happens, otherwise the state
\* becomes MANIFEST_WAIT_RESET, then the USB device is torn down, then the
\* system reset is triggered, in that order, and no further DFU transition
\* occurs.  The leave procedure is invoked from no other state.
C23_Leave ==
    [][/\ (/\ lastOp' = "DFU_EP0_TxReady"
           /\ hdfu # NULL
           /\ hdfu.dev_state = DFU_STATE_MANIFEST)
            => /\ hdfu'.manif_state = DFU_MANIFEST_COMPLETE
               /\ IF DFU_MANIFEST_TOLERANT
                  THEN /\ hdfu'.dev_state = DFU_STATE_MANIFEST_SYNC
                       /\ St(hdfu', 4) = DFU_STATE_MANIFEST_SYNC
                       /\ calls' = <<>>
                       /\ ~dfuHalt'
                  ELSE /\ hdfu'.dev_state = DFU_STATE_MANIFEST_WAIT_RESET
                       /\ St(hdfu', 4) = DFU_STATE_MANIFEST_WAIT_RESET
                       /\ calls' = <<Call("USBD_DeInit", <<>>),
                                     Call("USBD_SystemReset", <<>>)>>
                       /\ dfuHalt'
       /\ LeaveCalls(calls') # {}
            => /\ lastOp' = "DFU_EP0_TxReady"
               /\ hdfu # NULL
               /\ hdfu.dev_state = DFU_STATE_MANIFEST
       /\ (dfuHalt /\ hdfu # NULL /\ hdfu.dev_state = DFU_STATE_MANIFEST_WAIT_RESET)
            => hdfu' = hdfu]_vars

\* the device has been torn down and reset out of MANIFEST
C23_Witness ==
    /\ lastOp = "DFU_EP0_TxReady"
    /\ hdfu # NULL
    /\ hdfu.dev_state = DFU_STATE_MANIFEST_WAIT_RESET
    /\ hdfu.manif_state = DFU_MANIFEST_COMPLETE
    /\ LeaveCalls(calls) = {1, 2}
    /\ dfuHalt


\* C33: the deferred write is never lost.  While a DNLOAD of a block >= 2 with
\* a nonzero length is pending (dev_state DNLOAD_SYNC or DNLOAD_BUSY), a step
\* of the class either keeps the pending block number and length, or is the
\* USBD_DFU_EP0_TxReady that invokes the medium's Write callback once with that
\* block's address and length, or leaves the download (a state other than
\* DNLOAD_SYNC, DNLOAD_BUSY and DNLOAD_IDLE); so DNLOAD_IDLE is never reached
\* with the write undone, and in DNLOAD_BUSY the pending length is nonzero.
C33_DeferredWrite ==
    [][(/\ hdfu # NULL
        /\ hdfu.dev_state \in {DFU_STATE_DNLOAD_SYNC, DFU_STATE_DNLOAD_BUSY}
        /\ hdfu.wlength > 0
        /\ hdfu.wblock_num >= 2
        /\ lastOp' \notin {"DFU_Init", "DFU_DeInit"})
         => \/ /\ hdfu'.dev_state \in {DFU_STATE_DNLOAD_SYNC, DFU_STATE_DNLOAD_BUSY}
               /\ hdfu'.wlength = hdfu.wlength
               /\ hdfu'.wblock_num = hdfu.wblock_num
            \/ /\ lastOp' = "DFU_EP0_TxReady"
               /\ calls' = <<Call("Write", <<BlockAddr(hdfu), "buffer", hdfu.wlength>>)>>
            \/ hdfu'.dev_state \notin {DFU_STATE_DNLOAD_SYNC, DFU_STATE_DNLOAD_BUSY,
                                       DFU_STATE_DNLOAD_IDLE}]_vars


\* USB_HS_MAX_PACKET_SIZE, which sizes the data buffers of the CDC and RNDIS handles
USB_HS_MAX_PACKET_SIZE == 512

\* the capacity in bytes of the scratch buffer that the Setup handler op arms:
\* hdfu->buffer, hrndis->data, hcdc->data
ScratchCapacity(op) ==
    IF op = "DFU_Download" THEN USBD_DFU_XFER_SIZE
    ELSE IF op = "RNDIS_Setup"
    THEN 4 * (RNDIS_EP0_RESERVED_SIZE + USB_HS_MAX_PACKET_SIZE \div 4)
    ELSE USB_HS_MAX_PACKET_SIZE

\* C35: whatever wLength the host sends, the number of bytes a class driver
\* arms for control-OUT reception into its scratch buffer never exceeds the
\* buffer's capacity, and the DFU pending length wlength never exceeds
\* USBD_DFU_XFER_SIZE.
C35_ScratchBounds ==
    [][/\ \A i \in 1..Len(calls') :
            calls'[i].fn = "USBD_CtlPrepareRx"
              => calls'[i].args[2] <= ScratchCapacity(lastOp')
       /\ hdfu' # NULL => hdfu'.wlength <= USBD_DFU_XFER_SIZE]_vars

-----------------------------------------------------------------------------
(* Properties of the RNDIS class driver: the bulk endpoints *)

\* C2: whatever the 32-bit MessageLength of the packet message in flight, a
\* USBD_RNDIS_TransmitMessage issued before the DataIn completion of an
\* accepted transfer returns USBD_BUSY, calls no low-level transmit and leaves
\* the recorded TxMsg and TxLength unchanged.
C2_SecondTransmitBusy ==
    [][(lastOp' = "RNDIS_TransmitMessage" /\ hrndis # NULL /\ rndisInXfer # <<>>)
         => /\ ret' = USBD_BUSY
            /\ calls' = <<>>
            /\ rndisInXfer' = rndisInXfer
            /\ hrndis'.TxMsg = hrndis.TxMsg
            /\ hrndis'.TxLength = hrndis.TxLength]_vars

\* the packet message of 100 bytes whose 56 data bytes follow the 44-byte header
Frame100(MessageLength, DataOffset, rxLength) ==
    [MessageType   |-> REMOTE_NDIS_PACKET_MSG,
     MessageLength |-> ToU32(MessageLength),
     DataOffset    |-> ToU32(DataOffset),
     DataLength    |-> W32(0, 56),
     rxLength      |-> rxLength]

\* C8 (as amended): a received packet message with MessageLength = 100,
\* DataOffset = 36 and DataLength = 56 (received length 100) is delivered to
\* PacketReceived; the same fields with MessageLength = 99 are rejected and no
\* callback is invoked.
C8_FramingExample ==
    [][(lastOp' = "RNDIS_DataOut" /\ hrndis # NULL)
         => /\ arg' = Frame100(100, 36, 100)
                 => /\ Len(calls') = 1
                    /\ calls'[1].fn = "PacketReceived"
            /\ arg' \in {Frame100(99, 36, 100), Frame100(99, 36, 99)}
                 => calls' = <<>>]_vars

\* the 100-byte frame has been delivered
C8_Witness ==
    /\ lastOp = "RNDIS_DataOut"
    /\ arg = Frame100(100, 36, 100)
    /\ calls = <<Call("PacketReceived", <<W32(0, 44), W32(0, 56)>>)>>

\* C8 (as stated): a received packet message with MessageLength = 100,
\* DataOffset = 44 and DataLength = 56 (received length 100) is delivered to
\* PacketReceived; the same fields with MessageLength = 99 are rejected.
C8_FramingExampleAsStated ==
    [][(lastOp' = "RNDIS_DataOut" /\ hrndis # NULL)
         => /\ arg' = Frame100(100, 44, 100)
                 => /\ Len(calls') = 1
                    /\ calls'[1].fn = "PacketReceived"
            /\ arg' \in {Frame100(99, 44, 100), Frame100(99, 44, 99)}
                 => calls' = <<>>]_vars

C38_PayloadInside ==
    [][(/\ lastOp' = "RNDIS_DataOut"
        /\ calls' # <<>>)
         => LET start  == calls'[1].args[1]
                length == calls'[1].args[2]
            IN  /\ calls'[1].fn = "PacketReceived"
                /\ start[1] = 0
                /\ length[1] = 0
                /\ start[2] + length[2] <= arg'.rxLength]_vars


\* C40: for every payload length n (32-bit, arithmetic modulo 2^32), a message
\* built by RNDIS_CREATE_PACKET_MSG(msg, n) passes RNDIS_VALID_PACKET_MSG(msg, L)
\* exactly when L is the MessageLength the macro set (the header size plus n),
\* and the slice the receiver then delivers starts right after the packet
\* header (byte 44 of the message) and has length n.
C40_FramingRoundTrip ==
    [][(lastOp' = "RNDIS_DataOut" /\ hrndis # NULL)
         => \A n \in PayloadLengths :
              arg' = ReceivedAs(RNDIS_CREATE_PACKET_MSG(n), arg'.rxLength)
                => /\ arg'.MessageLength = Add32(ToU32(SizeofPacketMsg), n)
                   /\ calls' # <<>>
                        <=> ToU32(arg'.rxLength) = Add32(ToU32(SizeofPacketMsg), n)
                   /\ calls' # <<>>
                        => calls' = <<Call("PacketReceived",
                                           <<ToU32(SizeofPacketMsg), n>>)>>]_vars

\* a created message with 56 payload bytes has been received as 100 bytes and
\* its payload delivered
C40_Witness ==
    /\ lastOp = "RNDIS_DataOut"
    /\ hrndis # NULL
    /\ arg = ReceivedAs(RNDIS_CREATE_PACKET_MSG(W32(0, 56)), 100)
    /\ calls = <<Call("PacketReceived", <<W32(0, 44), W32(0, 56)>>)>>

-----------------------------------------------------------------------------
(* Properties of the RNDIS class driver: the control endpoint *)

\* C7: a fully arrived QUERY for OID_GEN_SUPPORTED_LIST, with a registered
\* table of n entries, is answered with a query completion whose Status is
\* Success, whose InfoBufferLength is 4 * n and whose payload, placed right
\* after the 24-byte completion header, is the n registered OIDs in
\* registration order; no QuerySetServer callback is invoked.
C7_SupportedList ==
    [][(/\ lastOp' = "RNDIS_EP0_RxReady"
        /\ arg'[1] = REMOTE_NDIS_QUERY_MSG
        /\ arg'[2] = ToU32(4 * Len(arg'))
        /\ arg'[4] = OID_GEN_SUPPORTED_LIST)
         => /\ Wd(hrndis'.data, 0) = REMOTE_NDIS_QUERY_CMPLT
            /\ Wd(hrndis'.data, 3) = RNDIS_STATUS_SUCCESS
            /\ Wd(hrndis'.data, 4) = ToU32(4 * Len(itfOids))
            /\ \A i \in 1..Len(itfOids) : Wd(hrndis'.data, 5 + i) = itfOids[i]
            /\ \A i \in 1..Len(calls') : calls'[i].fn # "QuerySetServer"]_vars

\* the list of the largest table has been reported
C7_Witness ==
    /\ lastOp = "RNDIS_EP0_RxReady"
    /\ arg[1] = REMOTE_NDIS_QUERY_MSG
    /\ arg[4] = OID_GEN_SUPPORTED_LIST
    /\ Len(itfOids) = MaxOids
    /\ Wd(hrndis.data, 0) = REMOTE_NDIS_QUERY_CMPLT
    /\ Wd(hrndis.data, 4) = ToU32(4 * MaxOids)
    /\ Wd(hrndis.data, 6) = OID_A
    /\ Wd(hrndis.data, 7) = OID_B

\* C10: a fully arrived keep-alive message, whatever its RequestID, leaves in
\* the shared buffer a KEEPALIVE_CMPLT message of 16 bytes with the same
\* RequestID and Status Success, and one response-available notification is
\* sent on the notification endpoint.
C10_KeepAlive ==
    [][(/\ lastOp' = "RNDIS_EP0_RxReady"
        /\ arg'[1] = REMOTE_NDIS_KEEPALIVE_MSG
        /\ arg'[2] = ToU32(4 * Len(arg')))
         => /\ Wd(hrndis'.data, 0) = REMOTE_NDIS_KEEPALIVE_CMPLT
            /\ Wd(hrndis'.data, 1) = W32(0, 16)
            /\ Wd(hrndis'.data, 2) = arg'[3]
            /\ Wd(hrndis'.data, 3) = RNDIS_STATUS_SUCCESS
            /\ calls' = <<Call("USBD_LL_Transmit",
                               <<"RNDIS_CMD_EP", "RNDIS_ResponseAvailable", 8>>)>>]_vars

\* the keep-alive with RequestID 0xFFFFFFFE has been answered
C10_Witness ==
    /\ lastOp = "RNDIS_EP0_RxReady"
    /\ arg[1] = REMOTE_NDIS_KEEPALIVE_MSG
    /\ arg[3] = W32(65535, 65534)
    /\ Wd(hrndis.data, 0) = REMOTE_NDIS_KEEPALIVE_CMPLT
    /\ Wd(hrndis.data, 2) = W32(65535, 65534)
    /\ Wd(hrndis.data, 3) = RNDIS_STATUS_SUCCESS
    /\ rndisNotif

\* the response-available notifications among the calls
Notifications(cs) == {i \in 1..Len(cs) : cs[i].fn = "USBD_LL_Transmit"}

\* C27: on EP0_RxReady a response-available notification (the fixed 8-byte
\* packet on the interrupt endpoint) is sent exactly once if and only if the
\* buffer's MessageLength equals the length announced at Setup time and
\* MessageType is one of INITIALIZE, QUERY, SET, RESET, KEEPALIVE; for a length
\* mismatch or an unrecognized message type no response is written, no
\* notification is sent, no user callback is invoked and the shared buffer is
\* left unmodified.
C27_DispatchGating ==
    [][(lastOp' = "RNDIS_EP0_RxReady" /\ hrndis # NULL)
         => LET m == arg'
            IN  IF /\ Wd(m, 1) = ToU32(hrndis.MsgLength)
                   /\ Wd(m, 0) \in {REMOTE_NDIS_INITIALIZE_MSG, REMOTE_NDIS_QUERY_MSG,
                                    REMOTE_NDIS_SET_MSG, REMOTE_NDIS_RESET_MSG,
                                    REMOTE_NDIS_KEEPALIVE_MSG}
                THEN /\ Notifications(calls') = {Len(calls')}
                     /\ calls'[Len(calls')].args
                          = <<"RNDIS_CMD_EP", "RNDIS_ResponseAvailable", 8>>
                     /\ hrndis'.data # PutWords(hrndis.data, 0, m)
                ELSE /\ calls' = <<>>
                     /\ hrndis' = [hrndis EXCEPT !.data = PutWords(@, 0, m)]]_vars

\* a keep-alive that announces 16 bytes in a data stage of 12 was dropped
C27_Witness ==
    /\ lastOp = "RNDIS_EP0_RxReady"
    /\ hrndis # NULL
    /\ arg[1] = REMOTE_NDIS_KEEPALIVE_MSG
    /\ arg[2] = ToU32(16)
    /\ hrndis.MsgLength = 12
    /\ Wd(hrndis.data, 0) = REMOTE_NDIS_KEEPALIVE_MSG
    /\ calls = <<>>

Served(cs) == {i \in 1..Len(cs) : cs[i].fn = "QuerySetServer"}

\* oid is registered, and the first entry of the registered table that holds it
Registered(oid) == \E i \in 1..Len(itfOids) : itfOids[i] = oid

FirstEntry(oid) ==
    CHOOSE i \in 1..Len(itfOids) :
        itfOids[i] = oid /\ \A j \in 1..(i - 1) : itfOids[j] # oid

\* C29: QUERY for an OID other than the supported list: if the OID is in the
\* registered table, the callback of the first matching entry is invoked
\* exactly once with a length that is 0 on entry, and the response carries the
\* callback's status and the length it wrote; if the OID is not found the
\* response has a failure status and a zero-length payload and no callback is
\* invoked.  In every case the response MessageLength equals the
\* query-complete header size plus InfoBufferLength and the RequestID is that
\* of the request.
C29_Query ==
    [][(/\ lastOp' = "RNDIS_EP0_RxReady"
        /\ hrndis # NULL
        /\ arg'[1] = REMOTE_NDIS_QUERY_MSG
        /\ arg'[2] = ToU32(hrndis.MsgLength)
        /\ arg'[4] # OID_GEN_SUPPORTED_LIST)
         => /\ IF Registered(arg'[4])
               THEN /\ Served(calls') = {1}
                    /\ calls'[1].args[1] = FirstEntry(arg'[4])
                    /\ calls'[1].args[3] = W32(0, 0)
                    /\ Wd(hrndis'.data, 3) = calls'[1].args[4]
                    /\ Wd(hrndis'.data, 4) = calls'[1].args[5]
               ELSE /\ Served(calls') = {}
                    /\ Wd(hrndis'.data, 3) = RNDIS_STATUS_FAILURE
                    /\ Wd(hrndis'.data, 4) = W32(0, 0)
            /\ Wd(hrndis'.data, 0) = REMOTE_NDIS_QUERY_CMPLT
            /\ Wd(hrndis'.data, 1) = Add32(ToU32(24), Wd(hrndis'.data, 4))
            /\ Wd(hrndis'.data, 2) = arg'[3]]_vars

\* a query with RequestID 0xFFFFFFFE that announced four bytes of input was
\* answered by the callback of the first entry with "not supported" and four
\* bytes
C29_Witness ==
    /\ lastOp = "RNDIS_EP0_RxReady"
    /\ hrndis # NULL
    /\ arg[1] = REMOTE_NDIS_QUERY_MSG
    /\ arg[3] = W32(65535, 65534)
    /\ arg[4] = OID_A
    /\ arg[5] = W32(0, 4)
    /\ Served(calls) = {1}
    /\ calls[1].args[1] = 1
    /\ Wd(hrndis.data, 1) = ToU32(28)
    /\ Wd(hrndis.data, 3) = RNDIS_STATUS_NOT_SUPPORTED
    /\ Wd(hrndis.data, 4) = W32(0, 4)

\* C30: SET: if the message's Reserved field is nonzero, or the OID is not in
\* the registered table, no per-OID callback is invoked and the response
\* status is failure; otherwise the matching entry's callback is invoked once
\* in the set direction, with the request's input buffer and a nonzero length
\* going in, and its return value is the response status.  The response is
\* always a SET completion of the fixed completion length.
C30_Set ==
    [][(/\ lastOp' = "RNDIS_EP0_RxReady"
        /\ hrndis # NULL
        /\ arg'[1] = REMOTE_NDIS_SET_MSG
        /\ arg'[2] = ToU32(hrndis.MsgLength))
         => /\ IF arg'[7] # W32(0, 0) \/ ~Registered(arg'[4])
               THEN /\ Served(calls') = {}
                    /\ Wd(hrndis'.data, 3) = RNDIS_STATUS_FAILURE
               ELSE /\ Served(calls') = {1}
                    /\ calls'[1].args[1] = FirstEntry(arg'[4])
                    /\ calls'[1].args[2] = Add32(ToU32(8), arg'[6])
                    /\ calls'[1].args[3] = arg'[5]
                    /\ calls'[1].args[3] # W32(0, 0)
                    /\ Wd(hrndis'.data, 3) = calls'[1].args[4]
            /\ Wd(hrndis'.data, 0) = REMOTE_NDIS_SET_CMPLT
            /\ Wd(hrndis'.data, 1) = ToU32(16)
            /\ Wd(hrndis'.data, 2) = arg'[3]]_vars


\* C31: USBD_RNDIS_SendStatus proceeds only with a class handle and an idle
\* control endpoint: it then writes an indicate-status message with the given
\* status and zero StatusBufferLength and StatusBufferOffset, sends one
\* response-available notification and returns USBD_OK; otherwise it changes
\* nothing, sends nothing and returns a failure result.
C31_SendStatus ==
    [][lastOp' = "RNDIS_SendStatus"
         => IF hrndis # NULL /\ rndisEp0 = "idle"
            THEN /\ Wd(hrndis'.data, 0) = REMOTE_NDIS_INDICATE_STATUS_MSG
                 /\ Wd(hrndis'.data, 2) = arg'
                 /\ Wd(hrndis'.data, 3) = W32(0, 0)
                 /\ Wd(hrndis'.data, 4) = W32(0, 0)
                 /\ calls' = <<ResponseReady>>
                 /\ ret' = USBD_OK
            ELSE /\ hrndis' = hrndis
                 /\ rndisNotif' = rndisNotif
                 /\ calls' = <<>>
                 /\ ret' # USBD_OK]_vars


\* C34: once the dispatcher has written a response into the shared buffer and
\* sent the notification, the buffer keeps that response until the host
\* retrieves it.  Stated for the step that follows the dispatcher's, when
\* nothing can have been retrieved yet: a USBD_RNDIS_SendStatus, a further
\* control transfer or an endpoint completion leaves the buffer as it is, and
\* a GET_ENCAPSULATED_RESPONSE returns that response.
C34_ResponseIntegrity ==
    [][(/\ lastOp = "RNDIS_EP0_RxReady"
        /\ calls = <<ResponseReady>>
        /\ hrndis # NULL
        /\ lastOp' \in {"RNDIS_SendStatus", "RNDIS_Setup", "RNDIS_EP0_RxReady",
                        "RNDIS_EP0_TxSent", "RNDIS_DataIn"})
         => /\ hrndis' # NULL
            /\ hrndis'.data = hrndis.data
            /\ (lastOp' = "RNDIS_Setup" /\ arg'[1] /\ arg'[2] # 0)
                 => calls' = <<Call("USBD_CtlSendData",
                                    <<hrndis.data, Wd(hrndis.data, 1)>>)>>]_vars


\* C36: REMOTE_NDIS_RESET_MSG.  The dispatcher invokes the user DeInit hook,
\* flushes both bulk data endpoints and invokes the user Init hook, in that
\* order, sets TxLength = 0, answers with a RESET completion of status success
\* and AddressingReset = 1 and sends the notification; a
\* USBD_RNDIS_TransmitMessage that follows is handed to the low-level driver
\* even if an earlier transfer never completed.
C36_Reset ==
    [][/\ (/\ lastOp' = "RNDIS_EP0_RxReady"
           /\ arg'[1] = REMOTE_NDIS_RESET_MSG
           /\ MsgArrived([hrndis EXCEPT !.data = PutWords(hrndis.data, 0, arg')]))
            => /\ calls' = <<Call("DeInit", <<>>),
                             Call("USBD_LL_FlushEP", "RNDIS_IN_EP"),
                             Call("USBD_LL_FlushEP", "RNDIS_OUT_EP"),
                             Call("Init", <<>>),
                             ResponseReady>>
               /\ hrndis'.TxLength = 0
               /\ Wd(hrndis'.data, 0) = REMOTE_NDIS_RESET_CMPLT
               /\ Wd(hrndis'.data, 1) = ToU32(SizeofResetCmplt)
               /\ Wd(hrndis'.data, 2) = RNDIS_STATUS_SUCCESS
               /\ Wd(hrndis'.data, 3) = W32(0, 1)
       /\ (/\ lastOp = "RNDIS_EP0_RxReady"
           /\ Wd(hrndis.data, 0) = REMOTE_NDIS_RESET_CMPLT
           /\ lastOp' = "RNDIS_TransmitMessage")
            => /\ calls' = <<Call("USBD_LL_Transmit",
                                  <<"RNDIS_IN_EP", arg'[1], arg'[2]>>)>>
               /\ hrndis'.TxMsg = arg'[1]
               /\ ret' \in LLStatus]_vars

\* the host's reset has been answered on a device whose application had
\* transmitted a message: the transfer is flushed and the tracking is idle
C36_Witness ==
    /\ lastOp = "RNDIS_EP0_RxReady"
    /\ arg[1] = REMOTE_NDIS_RESET_MSG
    /\ hrndis # NULL
    /\ Wd(hrndis.data, 0) = REMOTE_NDIS_RESET_CMPLT
    /\ hrndis.TxMsg \in Buffers
    /\ hrndis.TxLength = 0
    /\ rndisInXfer = <<>>

-----------------------------------------------------------------------------
(* Properties of activation and deactivation *)

\* the calls of a handler that release the class handle or run the user
\* DeInit hook
Releases(cs) == {i \in 1..Len(cs) : cs[i].fn \in {"DeInit", "USBD_free"}}

\* C11: DeInit of each class (CDC, DFU, RNDIS) returns Ok and leaves the class
\* handle null; called with an already-null handle, as the second of two calls
\* in a row is, it neither runs the user DeInit hook nor frees the handle.
C11_DeInitIdempotent ==
    [][/\ lastOp' = "CDC_DeInit"
            => /\ ret' = USBD_OK
               /\ hcdc' = NULL
               /\ (hcdc = NULL \/ lastOp = "CDC_DeInit") => Releases(calls') = {}
       /\ lastOp' = "DFU_DeInit"
            => /\ ret' = USBD_OK
               /\ hdfu' = NULL
               /\ (hdfu = NULL \/ lastOp = "DFU_DeInit") => Releases(calls') = {}
       /\ lastOp' = "RNDIS_DeInit"
            => /\ ret' = USBD_OK
               /\ hrndis' = NULL
               /\ (hrndis = NULL \/ lastOp = "RNDIS_DeInit")
                    => Releases(calls') = {}]_vars

\* DeInit of the RNDIS class has run on a null handle while the other two
\* classes were active
C11_Witness ==
    /\ lastOp = "RNDIS_DeInit"
    /\ hrndis = NULL
    /\ Releases(calls) = {}
    /\ ret = USBD_OK
    /\ hcdc # NULL
    /\ hdfu # NULL

\* C12 (the DFU class): a request handler or EP0 callback entered while the
\* class handle is null does not dereference the handle, makes no transfer and
\* no user callback, and leaves the handle null.
C12_NullHandleSafe ==
    [][(hdfu = NULL /\ lastOp' \notin {"DFU_Init", "DFU_DeInit"})
         => /\ ret' # FAULT
            /\ calls' = <<>>
            /\ hdfu' = NULL]_vars

\* C13: when the allocation of the class handle fails, Init of each class
\* returns a status other than Ok, and every endpoint it opened has been
\* closed again.
C13_InitAllocationFailure ==
    [][(/\ lastOp' \in {"CDC_Init", "DFU_Init", "RNDIS_Init"}
        /\ \E i \in 1..Len(calls') : /\ calls'[i].fn = "USBD_malloc"
                                      /\ calls'[i].args = FALSE)
         => /\ ret' # USBD_OK
            /\ \A i \in 1..Len(calls') :
                 calls'[i].fn = "USBD_LL_OpenEP"
                   => \E j \in (i + 1)..Len(calls') :
                        /\ calls'[j].fn = "USBD_LL_CloseEP"
                        /\ calls'[j].args = calls'[i].args]_vars

=============================================================================
